---- MODULE Spec2Model ----
(***************************************************************************)
(* A model of the Spotify playlist filterer (src/app.py): the duplicate    *)
(* detection helpers as operators, and the /run-filter handler as a state  *)
(* machine whose steps are the handler's blocking round-trips to Spotify.  *)
(***************************************************************************)
EXTENDS Integers, Sequences, FiniteSets, TLC

(***************************************************************************)
(* Strings.  A title is a TLA+ string; TLC gives Len, SubSeq and \o on     *)
(* strings, so a character is the one-character string SubSeq(s, i, i).    *)
(* The model's titles are ASCII.                                           *)
(***************************************************************************)
CharAt(s, i) == SubSeq(s, i, i)

\* Python's None, for an optional integer (duration_ms).
None == 0 - 1

Max(x, y) == IF x >= y THEN x ELSE y

Abs(x) == IF x >= 0 THEN x ELSE 0 - x

\* min(S), for a non-empty set of numbers.
Least(S) == CHOOSE m \in S : \A n \in S : m <= n

Digits == {"0", "1", "2", "3", "4", "5", "6", "7", "8", "9"}

Whitespace == {" "}

\* str.lower() on one character.
LowerChar(c) ==
    CASE c = "A" -> "a" [] c = "B" -> "b" [] c = "C" -> "c" [] c = "D" -> "d"
      [] c = "E" -> "e" [] c = "F" -> "f" [] c = "G" -> "g" [] c = "H" -> "h"
      [] c = "I" -> "i" [] c = "J" -> "j" [] c = "K" -> "k" [] c = "L" -> "l"
      [] c = "M" -> "m" [] c = "N" -> "n" [] c = "O" -> "o" [] c = "P" -> "p"
      [] c = "Q" -> "q" [] c = "R" -> "r" [] c = "S" -> "s" [] c = "T" -> "t"
      [] c = "U" -> "u" [] c = "V" -> "v" [] c = "W" -> "w" [] c = "X" -> "x"
      [] c = "Y" -> "y" [] c = "Z" -> "z" [] OTHER -> c

\* ''.join(parts[lo..hi]) (the range is halved, which keeps the evaluation
\* shallow).
RECURSIVE Join(_, _, _)
Join(parts, lo, hi) ==
    IF lo > hi THEN ""
    ELSE IF lo = hi THEN parts[lo]
    ELSE Join(parts, lo, (lo + hi) \div 2) \o Join(parts, (lo + hi) \div 2 + 1, hi)

\* title.lower()
Lower(s) == Join([i \in 1..Len(s) |-> LowerChar(CharAt(s, i))], 1, Len(s))

(***************************************************************************)
(* Regular expressions, as re matches them: a backtracking matcher that    *)
(* returns the positions a match starting at i can end at, in the order    *)
(* the backtracking search of re tries them (greedy: longest first, lazy:  *)
(* shortest first, alternation: left to right).  The first one is the      *)
(* match that re finds at i.                                               *)
(***************************************************************************)
Chr(c) == [k |-> "chr", c |-> c]
Cls(S) == [k |-> "cls", s |-> S]          \* [...] and \s, \d
NotCls(S) == [k |-> "ncls", s |-> S]      \* [^...] and .
Cat(l) == [k |-> "cat", l |-> l]
Alt(l) == [k |-> "alt", l |-> l]
Star(r) == [k |-> "star", r |-> r]        \* r*
LazyStar(r) == [k |-> "lazy", r |-> r]    \* r*?
Eos == [k |-> "eos"]                      \* $
Opt(r) == Alt(<<r, Cat(<<>>)>>)           \* r?
Plus(r) == Cat(<<r, Star(r)>>)            \* r+

Lit(w) == [k |-> "lit", w |-> w]          \* a literal word

WS == Cls(Whitespace)                     \* \s
Dig == Cls(Digits)                        \* \d
Dot == NotCls({})                         \* . (the titles hold no newline)
\* [-...]: the hyphen; the other members of the source's class are
\* non-ASCII characters, outside the model's alphabet.
Dash == Cls({"-"})
NotRParen == NotCls({")"})                \* [^)]

\* Whether character c is one that the one-character pattern r matches.
Accepts(r, c) ==
    CASE r.k = "chr" -> c = r.c
      [] r.k = "cls" -> c \in r.s
      [] r.k = "ncls" -> c \notin r.s

\* The position after the longest run, from i, of characters r matches.
RunEnd(r, s, i) ==
    LET stops == {j \in i..Len(s) : ~Accepts(r, CharAt(s, j))}
    IN  IF stops = {} THEN Len(s) + 1 ELSE CHOOSE j \in stops : \A m \in stops : j <= m

RECURSIVE Match(_, _, _), MatchCat(_, _, _, _), MatchAlt(_, _, _, _), ThenCat(_, _, _, _)

\* Every repetition of the program's patterns is of a one-character
\* pattern (\s, \d, ., [^)]): r* from i ends anywhere in the run of such
\* characters, greedy trying the longest first and lazy the shortest.
Match(r, s, i) ==
    CASE r.k \in {"chr", "cls", "ncls"} ->
            IF i <= Len(s) /\ Accepts(r, CharAt(s, i)) THEN <<i + 1>> ELSE <<>>
      [] r.k = "lit" ->
            IF i + Len(r.w) - 1 <= Len(s) /\ SubSeq(s, i, i + Len(r.w) - 1) = r.w
            THEN <<i + Len(r.w)>> ELSE <<>>
      [] r.k = "eos" -> IF i = Len(s) + 1 THEN <<i>> ELSE <<>>
      [] r.k = "cat" -> MatchCat(r.l, 1, s, i)
      [] r.k = "alt" -> MatchAlt(r.l, 1, s, i)
      [] r.k = "star" -> LET e == RunEnd(r.r, s, i) IN [n \in 1..(e - i + 1) |-> e - n + 1]
      [] r.k = "lazy" -> LET e == RunEnd(r.r, s, i) IN [n \in 1..(e - i + 1) |-> i + n - 1]

\* The ends of l[n..] matched from i: l[n] is matched, and from each of
\* its ends, in their order, the rest.
MatchCat(l, n, s, i) ==
    IF n > Len(l) THEN <<i>>
    ELSE LET ends == Match(l[n], s, i)
         IN  IF ends = <<>> THEN <<>>
             ELSE IF Len(ends) = 1 THEN MatchCat(l, n + 1, s, ends[1])
             ELSE ThenCat([l |-> l, n |-> n + 1, s |-> s], ends, 1, Len(ends))

\* The rest c.l[c.n..] matched from each of ends[lo..hi] (the range is
\* halved, which keeps the evaluation shallow).
ThenCat(c, ends, lo, hi) ==
    IF lo = hi THEN MatchCat(c.l, c.n, c.s, ends[lo])
    ELSE LET mid == (lo + hi) \div 2
         IN  ThenCat(c, ends, lo, mid) \o ThenCat(c, ends, mid + 1, hi)

MatchAlt(l, n, s, i) ==
    IF n > Len(l) THEN <<>> ELSE Match(l[n], s, i) \o MatchAlt(l, n + 1, s, i)

\* re.sub(pattern, '', s) from position i: the leftmost match at or after
\* i is removed and the scan goes on after it.  No pattern of the program
\* matches the empty string.
RECURSIVE SubFrom(_, _, _)
SubFrom(r, s, i) ==
    LET starts == {j \in i..Len(s) : Match(r, s, j) # <<>>}
    IN  IF starts = {} THEN SubSeq(s, i, Len(s))
        ELSE SubSeq(s, i, Least(starts) - 1) \o SubFrom(r, s, Match(r, s, Least(starts))[1])

ReSub(r, s) == SubFrom(r, s, 1)

(***************************************************************************)
(* normalize_title: the ordered cascade of pattern removals.               *)
(***************************************************************************)
\* \s*\(word.*?\)
ParenLazy(word) == Cat(<<Star(WS), Chr("("), Lit(word), LazyStar(Dot), Chr(")")>>)

\* \s*[-...]\s*word.*$
DashToEnd(word) == Cat(<<Star(WS), Dash, Star(WS), Lit(word), Star(Dot), Eos>>)

\* \s*\([^)]*word\)
ParenEnding(word) == Cat(<<Star(WS), Chr("("), Star(NotRParen), Lit(word), Chr(")")>>)

Remaster == Cat(<<Lit("remaster"), Opt(Lit("ed"))>>)      \* remaster(ed)?
OptYear == Opt(Cat(<<Plus(WS), Plus(Dig)>>))               \* (\s+\d+)?
OptAlbumVersion ==                                         \* (\s+album\s+version)?
    Opt(Cat(<<Plus(WS), Lit("album"), Plus(WS), Lit("version")>>))

Feat ==                                                    \* (feat\.?|ft\.?|featuring)
    Alt(<<Cat(<<Lit("feat"), Opt(Chr("."))>>), Cat(<<Lit("ft"), Opt(Chr("."))>>),
          Lit("featuring")>>)

patterns == <<
    Cat(<<Star(WS), Chr("("), Lit("remastered"), Plus(WS), Lit("album"), Plus(WS),
          Lit("version"), Chr(")")>>),
    Cat(<<Star(WS), Chr("("), Lit("remastered"), Plus(WS), Plus(Dig), Chr(")")>>),
    Cat(<<Star(WS), Chr("("), Remaster, Star(WS), Star(Dig), Chr(")")>>),
    Cat(<<Star(WS), Dash, Star(WS), Remaster, OptYear, OptAlbumVersion>>),
    Cat(<<Star(WS), Dash, Star(WS), Plus(Dig), Star(WS), Remaster>>),
    Cat(<<Star(WS), Chr("("), Remaster, OptYear, OptAlbumVersion, Chr(")")>>),
    Cat(<<Star(WS), Chr("("), Plus(Dig), Star(WS), Remaster, Chr(")")>>),
    ParenLazy("deluxe"),
    ParenLazy("expanded"),
    ParenLazy("anniversary"),
    ParenLazy("bonus track"),
    ParenLazy("album version"),
    ParenLazy("original"),
    ParenLazy("single version"),
    ParenLazy("radio edit"),
    ParenLazy("explicit"),
    ParenLazy("clean"),
    Cat(<<Star(WS), Lit("(edit)")>>),
    Cat(<<Star(WS), Lit("(re"), Opt(Chr("-")), Lit("recorded"), LazyStar(Dot), Chr(")")>>),
    ParenLazy("remix"),
    DashToEnd("remix"),
    DashToEnd("live"),
    ParenLazy("live"),
    ParenLazy("acoustic"),
    DashToEnd("acoustic"),
    Cat(<<Star(WS), Dash, Star(WS), Lit("from"), Plus(WS), Chr("\""), Star(Dot), Chr("\"")>>),
    Cat(<<Star(WS), Lit("(from"), Plus(WS), Chr("\""), Star(Dot), Chr("\""), Chr(")")>>),
    Cat(<<Star(WS), Lit("(from"), Plus(WS), LazyStar(Dot), Chr(")")>>),
    DashToEnd("mono"),
    ParenLazy("mono"),
    DashToEnd("stereo"),
    ParenLazy("stereo"),
    Cat(<<Star(WS), Lit("(super"), Plus(WS), Lit("deluxe"), LazyStar(Dot), Chr(")")>>),
    Cat(<<Star(WS), Lit("(special"), Plus(WS), Lit("edition"), LazyStar(Dot), Chr(")")>>),
    Cat(<<Star(WS), Lit("(version)"), Eos>>),
    Cat(<<Star(WS), Chr("("), Star(NotRParen), Lit("remaster"), Star(NotRParen), Chr(")")>>),
    ParenEnding("version"),
    ParenEnding("edition"),
    ParenEnding("mix") >>

\* \s*(feat\.?|ft\.?|featuring)\s+.*$
FeatToEnd == Cat(<<Star(WS), Feat, Plus(WS), Star(Dot), Eos>>)

\* \s*\((feat\.?|ft\.?|featuring).*?\)
FeatParen == Cat(<<Star(WS), Chr("("), Feat, LazyStar(Dot), Chr(")")>>)

\* for pattern in patterns[lo..hi]: title = re.sub(pattern, '', title)
\* (the range is halved, which keeps the evaluation shallow).
RECURSIVE StripPatterns(_, _, _)
StripPatterns(s, lo, hi) ==
    IF Len(s) = 0 THEN ""
    ELSE IF lo = hi THEN ReSub(patterns[lo], s)
    ELSE StripPatterns(StripPatterns(s, lo, (lo + hi) \div 2), (lo + hi) \div 2 + 1, hi)

\* ' '.join(s.split()) keeps a word character, and of a run of whitespace
\* between two words one space.
JoinSplitAt(s, i) ==
    IF CharAt(s, i) \notin Whitespace THEN CharAt(s, i)
    ELSE IF /\ i > 1
            /\ CharAt(s, i - 1) \notin Whitespace
            /\ \E j \in (i + 1)..Len(s) : CharAt(s, j) \notin Whitespace
         THEN " "
         ELSE ""

JoinSplit(s) == Join([i \in 1..Len(s) |-> JoinSplitAt(s, i)], 1, Len(s))

\* The two "featuring" removals and the whitespace clean-up, on the title
\* the pattern loop leaves.
StripFeatToEnd(stripped) == IF Len(stripped) = 0 THEN "" ELSE ReSub(FeatToEnd, stripped)

StripFeatParen(nofeat) == IF Len(nofeat) = 0 THEN "" ELSE JoinSplit(ReSub(FeatParen, nofeat))

normalize_title(title) ==
    IF title = "" THEN ""
    ELSE StripFeatParen(StripFeatToEnd(StripPatterns(Lower(title), 1, Len(patterns))))

(***************************************************************************)
(* fuzzy_title_match: difflib.SequenceMatcher(None, a, b).ratio().  The    *)
(* titles are shorter than 200 characters, so no character is junk.        *)
(* Positions are Python's: a[i] is CharAt(a, i + 1), ranges are [lo, hi).  *)
(***************************************************************************)
\* The length of the longest common run of a[i..] and b[j..] inside
\* a[..ahi) and b[..bhi).
RunLen(a, b, i, j, ahi, bhi) ==
    LET room == IF ahi - i <= bhi - j THEN ahi - i ELSE bhi - j
        stops == {k \in 0..(room - 1) : CharAt(a, i + k + 1) # CharAt(b, j + k + 1)}
    IN  IF stops = {} THEN room ELSE CHOOSE k \in stops : \A m \in stops : k <= m

\* SequenceMatcher.find_longest_match: of the longest matching blocks the
\* one that starts earliest in a, and of those the one earliest in b.
\* Whether block m = <<i, j, size>> comes before block n: the longer one,
\* of two as long the one earlier in a, of those the one earlier in b.
BlockBefore(m, n) ==
    \/ m[3] > n[3]
    \/ m[3] = n[3] /\ m[1] < n[1]
    \/ m[3] = n[3] /\ m[1] = n[1] /\ m[2] <= n[2]

FirstBlock(blocks) == CHOOSE m \in blocks : \A n \in blocks : BlockBefore(m, n)

find_longest_match(a, b, alo, ahi, blo, bhi) ==
    IF alo >= ahi \/ blo >= bhi THEN <<alo, blo, 0>>
    ELSE FirstBlock({<<i, j, RunLen(a, b, i, j, ahi, bhi)>> :
                        <<i, j>> \in (alo..(ahi - 1)) \X (blo..(bhi - 1))})

\* SequenceMatcher.get_matching_blocks, summed: the longest block, then the
\* blocks of what is left of it and of what is right of it.
RECURSIVE MatchedSize(_, _, _, _)
MatchedSize(a, b, nxt, m) ==
    LET alo == nxt[1]
        ahi == nxt[2]
        blo == nxt[3]
        bhi == nxt[4]
    IN  IF m[3] = 0 THEN 0
        ELSE m[3]
             + (IF alo < m[1] /\ blo < m[2]
                THEN MatchedSize(a, b, <<alo, m[1], blo, m[2]>>,
                                 find_longest_match(a, b, alo, m[1], blo, m[2]))
                ELSE 0)
             + (IF m[1] + m[3] < ahi /\ m[2] + m[3] < bhi
                THEN MatchedSize(a, b, <<m[1] + m[3], ahi, m[2] + m[3], bhi>>,
                                 find_longest_match(a, b, m[1] + m[3], ahi, m[2] + m[3], bhi))
                ELSE 0)

\* The ratio 2.0 * matches / length as the fraction num / den (1.0 for two
\* empty strings).
fuzzy_title_match(title1, title2) ==
    IF Len(title1) + Len(title2) = 0 THEN [num |-> 1, den |-> 1]
    ELSE [num |-> 2 * MatchedSize(title1, title2, <<0, Len(title1), 0, Len(title2)>>,
                                  find_longest_match(title1, title2, 0, Len(title1), 0, Len(title2))),
          den |-> Len(title1) + Len(title2)]

\* ratio >= pct / 100.  Python compares the double nearest to num / den with
\* the double nearest to pct / 100, which agree with the exact comparison.
RatioAtLeast(ratio, pct) == 100 * ratio.num >= pct * ratio.den

(***************************************************************************)
(* Tracks.  A track is a record                                            *)
(*   [id, name, duration_ms, artists, isrc]                                *)
(* id: a positive number (0: the item has no track id); name: the title;   *)
(* duration_ms: a number or None; artists: the set of the ids of its       *)
(* artists (an artist without an id adds nothing to it); isrc: the         *)
(* external_ids.isrc string ("": none).                                    *)
(***************************************************************************)
Mk(id, name, dur, artists, isrc) ==
    [id |-> id, name |-> name, duration_ms |-> dur, artists |-> artists, isrc |-> isrc]

\* The titles of the model's tracks.
Titles ==
    {"", "Song A", "Song A (Remastered 2009)", "Other Tune", "aaaaabaaaa", "baaaaaaaaa"}

\* normalize_title over the model's titles, computed once.
NormTable == [t \in Titles |-> normalize_title(t)]

NormTitles == {NormTable[t] : t \in Titles}

\* fuzzy_title_match over the model's normalized titles, computed once.
RatioTable == [p \in NormTitles \X NormTitles |-> fuzzy_title_match(p[1], p[2])]

\* normalize_title(track.get('name', ''))
NormOf(track) == NormTable[track.name]

\* Python's truth of an optional number: None and 0 are false.
Truthy(n) == n # None /\ n # 0

FloorMs == 10000

RatioPct == 3

duration_within_threshold(duration1, duration2) ==
    IF ~Truthy(duration1) \/ ~Truthy(duration2) THEN FALSE
    ELSE LET max_duration == Max(duration1, duration2)
         \* abs(d1 - d2) <= max(10000, max_duration * 0.03), without fractions
         IN  /\ \/ Abs(duration1 - duration2) <= FloorMs
                \/ 100 * Abs(duration1 - duration2) <= RatioPct * max_duration

artists_overlap(artists1, artists2) ==
    IF artists1 = {} \/ artists2 = {} THEN FALSE
    ELSE (artists1 \cap artists2) # {}

artists_exact_match(artists1, artists2) ==
    IF artists1 = {} \/ artists2 = {} THEN FALSE
    ELSE artists1 = artists2 /\ artists1 # {}

get_isrc(track) == track.isrc

SimilarTitlePct == 90

CandidatePct == 85

TitleExactPoints == 40

TitleSimilarPoints == 25

DurationPoints == 30

ArtistSharedPoints == 30

ArtistSamePoints == 10

IsrcScore == 100

\* The title tier of calculate_similarity_score: <<points, reasons>>.
TitleSignal(norm_title1, norm_title2) ==
    IF norm_title1 # "" /\ norm_title2 # ""
    THEN IF norm_title1 = norm_title2
         THEN <<TitleExactPoints, <<"Exact title match">> >>
         ELSE IF RatioAtLeast(RatioTable[<<norm_title1, norm_title2>>], SimilarTitlePct)
              THEN <<TitleSimilarPoints, <<"Similar title">> >>
              ELSE <<0, <<>> >>
    ELSE <<0, <<>> >>

DurationSignal(dur1, dur2) ==
    IF duration_within_threshold(dur1, dur2)
    THEN <<DurationPoints, <<"Similar duration">> >>
    ELSE <<0, <<>> >>

ArtistSignal(artists1, artists2) ==
    IF artists_overlap(artists1, artists2)
    THEN IF artists_exact_match(artists1, artists2)
         THEN <<ArtistSharedPoints + ArtistSamePoints, <<"Same artist(s)">> >>
         ELSE <<ArtistSharedPoints, <<"Shared artist(s)">> >>
    ELSE <<0, <<>> >>

\* score and reasons, summed over the three signals.
SignalSum(title, dur, art) ==
    [score |-> title[1] + dur[1] + art[1], reasons |-> title[2] \o dur[2] \o art[2]]

\* The title, duration and artist tiers of calculate_similarity_score.
SignalScore(track1, track2) ==
    SignalSum(TitleSignal(NormOf(track1), NormOf(track2)),
              DurationSignal(track1.duration_ms, track2.duration_ms),
              ArtistSignal(track1.artists, track2.artists))

\* calculate_similarity_score without the ISRC check.
calculate_similarity_score_no_isrc(track1, track2) == SignalScore(track1, track2)

\* calculate_similarity_score(track1, track2): [score, reasons].
calculate_similarity_score(track1, track2) ==
    IF /\ get_isrc(track1) # ""
       /\ get_isrc(track2) # ""
       /\ get_isrc(track1) = get_isrc(track2)
    THEN [score |-> IsrcScore, reasons |-> <<"Same ISRC (identical recording)">>]
    ELSE SignalScore(track1, track2)

(***************************************************************************)
(* Lists.                                                                  *)
(***************************************************************************)
\* The elements seq[i], lo <= i <= hi, whose index is in keep, in order
\* (the range is halved, which keeps the evaluation shallow).
RECURSIVE SelectRange(_, _, _, _)
SelectRange(seq, keep, lo, hi) ==
    IF lo > hi THEN <<>>
    ELSE IF lo = hi THEN (IF lo \in keep THEN <<seq[lo]>> ELSE <<>>)
    ELSE SelectRange(seq, keep, lo, (lo + hi) \div 2)
         \o SelectRange(seq, keep, (lo + hi) \div 2 + 1, hi)

\* [x for i, x in enumerate(seq) if i in keep]
SelectAt(seq, keep) == SelectRange(seq, keep, 1, Len(seq))

Range(seq) == {seq[i] : i \in 1..Len(seq)}

\* The keys of a dict filled in the order of seq: each value once, in the
\* order of its first occurrence.
KeysInOrder(seq) ==
    SelectAt(seq, {i \in 1..Len(seq) : \A j \in 1..(i - 1) : seq[j] # seq[i]})

\* The strings of a list that are not empty, in order.
NonEmpty(strs) == SelectAt(strs, {i \in 1..Len(strs) : strs[i] # ""})

\* A match tuple of the two finders: (track, other, score, reasons).
MatchTuple(track, other, score, reasons) ==
    [track |-> track, other |-> other, score |-> score, reasons |-> reasons]

(***************************************************************************)
(* find_duplicates_and_warnings                                            *)
(***************************************************************************)
\* The keys of filter_by_title, in dict order.
TitleKeys(tracks) == KeysInOrder(NonEmpty([n \in 1..Len(tracks) |-> NormOf(tracks[n])]))

\* filter_by_title[norm_title]
TitleBucket(tracks, norm_title) ==
    SelectAt(tracks, {i \in 1..Len(tracks) : NormOf(tracks[i]) = norm_title})

\* filter_by_isrc[isrc]: the last track of the list with this ISRC.
LastWithIsrc(tracks, isrc) ==
    tracks[CHOOSE i \in 1..Len(tracks) :
              /\ get_isrc(tracks[i]) = isrc
              /\ \A j \in (i + 1)..Len(tracks) : get_isrc(tracks[j]) # isrc]

\* The buckets of the keys keys[n..] whose title is similar enough to the
\* target's, one after the other.
RECURSIVE FuzzyCandidates(_, _, _, _)
FuzzyCandidates(target_norm_title, filter_tracks, keys, n) ==
    IF n > Len(keys) THEN <<>>
    ELSE (IF /\ keys[n] # target_norm_title
             /\ RatioAtLeast(RatioTable[<<target_norm_title, keys[n]>>], CandidatePct)
          THEN TitleBucket(filter_tracks, keys[n])
          ELSE <<>>)
         \o FuzzyCandidates(target_norm_title, filter_tracks, keys, n + 1)

\* candidates: the bucket of the target's own title, then the buckets of
\* the similar titles; keys are the keys of filter_by_title.
CandidatesAmong(target_norm_title, filter_tracks, keys) ==
    (IF target_norm_title \in Range(keys)
     THEN TitleBucket(filter_tracks, target_norm_title)
     ELSE <<>>)
    \o FuzzyCandidates(target_norm_title, filter_tracks, keys, 1)

Candidates(target_norm_title, filter_tracks) ==
    CandidatesAmong(target_norm_title, filter_tracks, TitleKeys(filter_tracks))

NoTrack == Mk(0, "", None, {}, "")

NoMatch == [found |-> FALSE, match |-> NoTrack, score |-> 0, reasons |-> <<>>]

\* KeepBest with a candidate of the same score taking the place of the
\* best so far.
KeepBest_last(target_track, candidate, result, best) ==
    IF candidate.id # target_track.id /\ result.score >= best.score
    THEN [found |-> TRUE, match |-> candidate,
          score |-> result.score, reasons |-> result.reasons]
    ELSE best

\* The best so far and a candidate with its score and reasons (result); a
\* candidate with the target's id is skipped.
KeepBest(target_track, candidate, result, best) ==
    IF candidate.id # target_track.id /\ result.score > best.score
    THEN [found |-> TRUE, match |-> candidate,
          score |-> result.score, reasons |-> result.reasons]
    ELSE best

\* One candidate scored against the best so far.
ScoreCandidate(target_track, candidate, best) ==
    KeepBest(target_track, candidate,
             calculate_similarity_score(target_track, candidate), best)

\* "Score each candidate": the first candidate of the highest score, if
\* that is above 0.
RECURSIVE BestCandidate(_, _, _, _)
BestCandidate(target_track, candidates, n, best) ==
    IF n > Len(candidates) THEN best
    ELSE BestCandidate(target_track, candidates, n + 1,
                       ScoreCandidate(target_track, candidates[n], best))

\* The best match of one target track.
BestMatch(target_track, filter_tracks) ==
    LET target_isrc == get_isrc(target_track)
    IN  IF target_isrc # "" /\ \E i \in 1..Len(filter_tracks) : get_isrc(filter_tracks[i]) = target_isrc
        THEN [found |-> TRUE, match |-> LastWithIsrc(filter_tracks, target_isrc),
              score |-> IsrcScore, reasons |-> <<"Same ISRC (identical recording)">>]
        ELSE BestCandidate(target_track, Candidates(NormOf(target_track), filter_tracks), 1, NoMatch)

DupThreshold == 80

WarnThreshold == 40

\* Categorize with the warning threshold as the duplicate threshold.
Categorize_from_warn(target_track, best, acc) ==
    IF target_track.id = 0 \/ target_track.id \in acc.seen_target_ids
    THEN acc
    ELSE IF best.found /\ best.score >= WarnThreshold
    THEN [acc EXCEPT !.duplicates = Append(@, MatchTuple(target_track, best.match,
                                                       best.score, best.reasons)),
                     !.seen_target_ids = @ \cup {target_track.id}]
    ELSE acc

\* Categorize without the test on seen_target_ids.
Categorize_unseen(target_track, best, acc) ==
    IF target_track.id = 0
    THEN acc
    ELSE IF best.found /\ best.score >= DupThreshold
    THEN [acc EXCEPT !.duplicates = Append(@, MatchTuple(target_track, best.match,
                                                       best.score, best.reasons)),
                     !.seen_target_ids = @ \cup {target_track.id}]
    ELSE IF best.found /\ best.score >= WarnThreshold
    THEN [acc EXCEPT !.warnings = Append(@, MatchTuple(target_track, best.match,
                                                     best.score, best.reasons))]
    ELSE acc

\* "Categorize by score", for a target track and its best match; acc:
\* [duplicates, warnings, seen_target_ids].
Categorize(target_track, best, acc) ==
    IF target_track.id = 0 \/ target_track.id \in acc.seen_target_ids
    THEN acc
    ELSE IF best.found /\ best.score >= DupThreshold
    THEN [acc EXCEPT !.duplicates = Append(@, MatchTuple(target_track, best.match,
                                                       best.score, best.reasons)),
                     !.seen_target_ids = @ \cup {target_track.id}]
    ELSE IF best.found /\ best.score >= WarnThreshold
    THEN [acc EXCEPT !.warnings = Append(@, MatchTuple(target_track, best.match,
                                                     best.score, best.reasons))]
    ELSE acc

\* One pass of the loop over target_tracks.
MatchTarget(target_track, filter_tracks, acc) ==
    Categorize(target_track, BestMatch(target_track, filter_tracks), acc)

\* The loop over target_tracks[n..].
RECURSIVE MatchTargets(_, _, _, _)
MatchTargets(target_tracks, filter_tracks, n, acc) ==
    IF n > Len(target_tracks) THEN acc
    ELSE MatchTargets(target_tracks, filter_tracks, n + 1,
                      MatchTarget(target_tracks[n], filter_tracks, acc))

\* return duplicates, warnings
Returns(acc) == [duplicates |-> acc.duplicates, warnings |-> acc.warnings]

\* find_duplicates_and_warnings(target_tracks, filter_tracks): [duplicates, warnings]
find_duplicates_and_warnings(target_tracks, filter_tracks) ==
    Returns(MatchTargets(target_tracks, filter_tracks, 1,
                         [duplicates |-> <<>>, warnings |-> <<>>, seen_target_ids |-> {}]))

(***************************************************************************)
(* find_internal_duplicates                                                *)
(***************************************************************************)
\* The tracks the index is built over: those with an id.
Indexed(tracks) == SelectAt(tracks, {i \in 1..Len(tracks) : tracks[i].id # 0})

\* The keys of by_isrc, in dict order.
IsrcKeys(tracks) == KeysInOrder(NonEmpty([n \in 1..Len(tracks) |-> get_isrc(tracks[n])]))

\* by_isrc[isrc]
IsrcBucket(tracks, isrc) ==
    SelectAt(tracks, {i \in 1..Len(tracks) : get_isrc(tracks[i]) = isrc})

\* One pass of "for dup in isrc_tracks[1:]"; acc: [duplicates, dominated_ids].
MarkIsrcDup(dup, original, acc) ==
    IF dup.id \notin acc.dominated_ids
    THEN [duplicates |-> Append(acc.duplicates,
                                MatchTuple(dup, original, IsrcScore,
                                           <<"Same ISRC (identical recording)">>)),
          dominated_ids |-> acc.dominated_ids \cup {dup.id}]
    ELSE acc

\* for dup in isrc_tracks[n..]
RECURSIVE MarkIsrcGroup(_, _, _)
MarkIsrcGroup(isrc_tracks, n, acc) ==
    IF n > Len(isrc_tracks) THEN acc
    ELSE MarkIsrcGroup(isrc_tracks, n + 1, MarkIsrcDup(isrc_tracks[n], isrc_tracks[1], acc))

\* for isrc, isrc_tracks in by_isrc.items(), from the n-th key on.
RECURSIVE MarkIsrcGroups(_, _, _, _)
MarkIsrcGroups(tracks, keys, n, acc) ==
    IF n > Len(keys) THEN acc
    ELSE MarkIsrcGroups(tracks, keys, n + 1,
                        IF Len(IsrcBucket(tracks, keys[n])) > 1
                        THEN MarkIsrcGroup(IsrcBucket(tracks, keys[n]), 2, acc)
                        ELSE acc)

\* MarkPair with track1 marked as the duplicate of track2.
MarkPair_swapped(track1, track2, result, acc) ==
    IF \/ track2.id \in acc.dominated_ids
       \/ track1.id = track2.id
       \/ result.score < DupThreshold
    THEN acc
    ELSE [duplicates |-> Append(acc.duplicates,
                                MatchTuple(track1, track2, result.score, result.reasons)),
          dominated_ids |-> acc.dominated_ids \cup {track1.id}]

\* MarkPair without the test of track2 against dominated_ids.
MarkPair_again(track1, track2, result, acc) ==
    IF \/ track1.id = track2.id
       \/ result.score < DupThreshold
    THEN acc
    ELSE [duplicates |-> Append(acc.duplicates,
                                MatchTuple(track2, track1, result.score, result.reasons)),
          dominated_ids |-> acc.dominated_ids \cup {track2.id}]

\* track2 marked as a duplicate of track1 if their score and reasons
\* (result) say so.
MarkPair(track1, track2, result, acc) ==
    IF \/ track2.id \in acc.dominated_ids
       \/ track1.id = track2.id
       \/ result.score < DupThreshold
    THEN acc
    ELSE [duplicates |-> Append(acc.duplicates,
                                MatchTuple(track2, track1, result.score, result.reasons)),
          dominated_ids |-> acc.dominated_ids \cup {track2.id}]

\* One pass of "for track2 in title_tracks[i+1:]".
ComparePair(track1, track2, acc) ==
    MarkPair(track1, track2, calculate_similarity_score(track1, track2), acc)

\* for track2 in title_tracks[j..], against track1 = title_tracks[i].
RECURSIVE CompareWith(_, _, _, _)
CompareWith(title_tracks, i, j, acc) ==
    IF j > Len(title_tracks) THEN acc
    ELSE CompareWith(title_tracks, i, j + 1, ComparePair(title_tracks[i], title_tracks[j], acc))

\* for i, track1 in enumerate(title_tracks), from i on.
RECURSIVE ComparePairs(_, _, _)
ComparePairs(title_tracks, i, acc) ==
    IF i > Len(title_tracks) THEN acc
    ELSE ComparePairs(title_tracks, i + 1,
                      IF title_tracks[i].id \in acc.dominated_ids
                      THEN acc
                      ELSE CompareWith(title_tracks, i, i + 1, acc))

\* One pass of "for norm_title, title_tracks in by_title.items()".
CompareBucket(title_tracks, acc) ==
    IF Len(title_tracks) <= 1 THEN acc ELSE ComparePairs(title_tracks, 1, acc)

\* for norm_title, title_tracks in by_title.items(), from the n-th key on.
RECURSIVE MarkTitleBuckets(_, _, _, _)
MarkTitleBuckets(tracks, keys, n, acc) ==
    IF n > Len(keys) THEN acc
    ELSE MarkTitleBuckets(tracks, keys, n + 1,
                          CompareBucket(TitleBucket(tracks, keys[n]), acc))

\* The two phases over the indexed tracks: the ISRC groups, then the
\* title buckets.
InternalAmong(indexed) ==
    MarkTitleBuckets(indexed, TitleKeys(indexed), 1,
                     MarkIsrcGroups(indexed, IsrcKeys(indexed), 1,
                                    [duplicates |-> <<>>, dominated_ids |-> {}])).duplicates

\* find_internal_duplicates(tracks): the list of (track_to_remove,
\* original_track, score, reasons).
find_internal_duplicates(tracks) == InternalAmong(Indexed(tracks))

(***************************************************************************)
(* get_playlist_id_from_link                                               *)
(***************************************************************************)
\* The positions at which sub occurs in s.
Occurrences(s, sub) ==
    {i \in 1..(Len(s) - Len(sub) + 1) : SubSeq(s, i, i + Len(sub) - 1) = sub}

\* sub in s
Contains(s, sub) == Occurrences(s, sub) # {}

\* s.split(sep)[0]
BeforeFirst(s, sep) ==
    IF ~Contains(s, sep) THEN s
    ELSE SubSeq(s, 1, (CHOOSE i \in Occurrences(s, sep) : \A j \in Occurrences(s, sep) : i <= j) - 1)

\* s.split(sep)[1], for s that holds sep: what follows its first occurrence,
\* up to the next one.
SecondPart(s, sep) ==
    LET first == CHOOSE i \in Occurrences(s, sep) : \A j \in Occurrences(s, sep) : i <= j
    IN  BeforeFirst(SubSeq(s, first + Len(sep), Len(s)), sep)

\* The playlist id of a link: [some, id], some = FALSE standing for None.
NoId == [some |-> FALSE, id |-> ""]

SomeId(id) == [some |-> TRUE, id |-> id]

get_playlist_id_from_link(link) ==
    IF link = "" THEN NoId
    ELSE IF Contains(link, "open.spotify.com/playlist/")
    THEN SomeId(BeforeFirst(SecondPart(link, "playlist/"), "?"))
    ELSE IF Contains(link, "spotify:playlist:")
    THEN SomeId(SecondPart(link, "spotify:playlist:"))
    ELSE NoId

(***************************************************************************)
(* The Spotify account run_filter works on.                                *)
(***************************************************************************)
\* The tracks Spotify knows with a title, by id.
Catalog ==
    << Mk(1, "Song A", None, {}, ""),
       Mk(2, "Song A (Remastered 2009)", 200000, {}, ""),
       Mk(3, "Song A", 198000, {}, ""),
       Mk(4, "Other Tune", 215000, {1}, "X"),
       Mk(5, "Song A", 200000, {1}, "X"),
       Mk(6, "Other Tune", 215000, {1}, "") >>

\* The track object of an id; ids past the catalog are tracks without a
\* title, a duration, artists or an ISRC.
TrackOf(id) == IF id <= Len(Catalog) THEN Catalog[id] ELSE Mk(id, "", None, {}, "")

\* The user's saved tracks and playlists, as lists of item ids; an item
\* with id 0 has no track id.
SavedItems == <<5, 0>>

FilterLists == [pid \in {"F1", "F2"} |-> IF pid = "F1" THEN <<3>> ELSE <<0, 4>>]

\* The playlist id Spotify knows as the target.
TargetPlaylistId == "PL1"

PageLimit == 100

SavedPageLimit == 50

BatchSize == 100

SampleSize == 5

Min(x, y) == IF x <= y THEN x ELSE y

\* results['items'] of a request with this offset and limit.
Page(items, offset, limit) == SubSeq(items, offset + 1, Min(offset + limit, Len(items)))

\* The ids of the items that have a track id, in order.
ItemIds(items) == SelectAt(items, {i \in 1..Len(items) : items[i] # 0})

\* The track objects of the items that have a track id, in order.
ItemTracks(items) ==
    LET ids == ItemIds(items)
    IN  [n \in 1..Len(ids) |-> TrackOf(ids[n])]

(***************************************************************************)
(* run_filter: the removal plan, from the fetched data.                    *)
(***************************************************************************)
\* target_id_counts
target_id_counts(target_tracks) ==
    [tid \in {target_tracks[i].id : i \in 1..Len(target_tracks)} |->
        Cardinality({i \in 1..Len(target_tracks) : target_tracks[i].id = tid})]

\* FirstOccurrences that keeps every occurrence.
FirstOccurrences_all(tracks) == tracks

\* The tracks of a list whose id did not occur earlier in it.
FirstOccurrences(tracks) ==
    SelectAt(tracks, {i \in 1..Len(tracks) : \A j \in 1..(i - 1) : tracks[j].id # tracks[i].id})

Without(tracks, ids) == SelectAt(tracks, {i \in 1..Len(tracks) : tracks[i].id \notin ids})

Within(tracks, ids) == SelectAt(tracks, {i \in 1..Len(tracks) : tracks[i].id \in ids})

Ids(tracks) == {tracks[i].id : i \in 1..Len(tracks)}

\* Python's order of two keys that are pairs of numbers.
KeyLess(a, b) == a[1] < b[1] \/ (a[1] = b[1] /\ a[2] < b[2])

\* sorted(seq, key), keys[i] being the key of seq[i]: elements of equal
\* keys keep their order. (Concatenating the empty sequence makes the
\* ranks a tuple, computed once.)
StableSort(seq, keys) ==
    LET n == Len(seq)
        rank == [i \in 1..n |->
                    Cardinality({j \in 1..n : \/ KeyLess(keys[j], keys[i])
                                              \/ keys[j] = keys[i] /\ j < i})] \o <<>>
    IN  [k \in 1..n |-> seq[CHOOSE i \in 1..n : rank[i] = k - 1]]

\* sorted(matches, key=lambda x: x[2], reverse=True)
ByScore(matches) ==
    StableSort(matches, [i \in 1..Len(matches) |-> <<0 - matches[i].score, 0>>])

\* One entry of removal_details; id is the track the entry was made for.
Detail(track, score, category) ==
    [id |-> track.id, name |-> track.name, score |-> score, category |-> category]

UnavailableDetails(unavailable_tracks) ==
    [n \in 1..Len(unavailable_tracks) |-> Detail(unavailable_tracks[n], 0, "unavailable")]

ExactDetails(exact_matches) ==
    [n \in 1..Len(exact_matches) |-> Detail(exact_matches[n], 100, "exact")]

DetailsOf(matches, category) ==
    [n \in 1..Len(matches) |-> Detail(matches[n].track, matches[n].score, category)]

MatchDetails(matches, category) == DetailsOf(ByScore(matches), category)

\* exact_matches: the available target tracks whose id is a filter id, once each.
ExactMatches(available_target_tracks, all_filter_tracks) ==
    FirstOccurrences(Within(available_target_tracks, Ids(all_filter_tracks)))

\* tracks_for_fuzzy that keeps the exact matches.
TracksForFuzzy_all(target_unique, exact_matches) == target_unique

\* tracks_for_fuzzy
TracksForFuzzy(target_unique, exact_matches) == Without(target_unique, Ids(exact_matches))

\* Steps 9 and 10 of run_filter; fuzzy is the pair find_duplicates_and_warnings
\* returned, split the categories of steps 4 to 6.
PlanOf(target_tracks, split, fuzzy, remaining_after_fuzzy, internal_duplicates, removal_details) ==
    [computed |-> TRUE,
     target_id_counts |-> target_id_counts(target_tracks),
     unavailable_tracks |-> split.unavailable_tracks,
     exact_matches |-> split.exact_matches,
     tracks_for_fuzzy |-> split.tracks_for_fuzzy,
     fuzzy_duplicates |-> fuzzy.duplicates,
     cross_warnings |-> fuzzy.warnings,
     remaining_after_fuzzy |-> remaining_after_fuzzy,
     internal_duplicates |-> internal_duplicates,
     tracks_to_remove_ids |-> {removal_details[i].id : i \in 1..Len(removal_details)},
     removal_details |-> removal_details]

\* Step 9: removal_details, category after category.
PlanDetails(target_tracks, split, fuzzy, remaining_after_fuzzy, internal_duplicates) ==
    PlanOf(target_tracks, split, fuzzy, remaining_after_fuzzy, internal_duplicates,
           UnavailableDetails(split.unavailable_tracks)
              \o ExactDetails(split.exact_matches)
              \o MatchDetails(fuzzy.duplicates, "fuzzy")
              \o MatchDetails(internal_duplicates, "internal"))

\* Step 8: the internal duplicates of what the fuzzy matching left.
PlanInternal(target_tracks, split, fuzzy, remaining_after_fuzzy) ==
    PlanDetails(target_tracks, split, fuzzy, remaining_after_fuzzy,
                find_internal_duplicates(remaining_after_fuzzy))

\* fuzzy_dup_ids and remaining_after_fuzzy
PlanRemaining(target_tracks, split, fuzzy) ==
    PlanInternal(target_tracks, split, fuzzy,
                 Without(split.tracks_for_fuzzy,
                         {fuzzy.duplicates[i].track.id : i \in 1..Len(fuzzy.duplicates)}))

\* Step 7: the fuzzy matching of the tracks steps 4 to 6 left.
PlanFuzzy(target_tracks, all_filter_tracks, split) ==
    PlanRemaining(target_tracks, split,
                  find_duplicates_and_warnings(split.tracks_for_fuzzy, all_filter_tracks))

\* Steps 4 (the split) to 6: [unavailable_tracks, exact_matches, tracks_for_fuzzy].
Split(target_tracks, unavailable_ids, all_filter_tracks) ==
    LET available_target_tracks == Without(target_tracks, unavailable_ids)
        exact_matches == ExactMatches(available_target_tracks, all_filter_tracks)
    IN  [unavailable_tracks |-> FirstOccurrences(Within(target_tracks, unavailable_ids)),
         exact_matches |-> exact_matches,
         tracks_for_fuzzy |-> TracksForFuzzy(FirstOccurrences(available_target_tracks),
                                             exact_matches)]

\* Steps 4 (the split) to 10 of run_filter.
RemovalPlan(target_tracks, unavailable_ids, all_filter_tracks) ==
    PlanFuzzy(target_tracks, all_filter_tracks,
              Split(target_tracks, unavailable_ids, all_filter_tracks))

NoPlan ==
    [computed |-> FALSE, target_id_counts |-> <<>>, unavailable_tracks |-> <<>>,
     exact_matches |-> <<>>, tracks_for_fuzzy |-> <<>>, fuzzy_duplicates |-> <<>>,
     cross_warnings |-> <<>>, remaining_after_fuzzy |-> <<>>, internal_duplicates |-> <<>>,
     tracks_to_remove_ids |-> {}, removal_details |-> <<>>]

\* category_order with the priorities the other way round.
category_order_reversed(category) ==
    CASE category = "exact" -> 3
      [] category = "fuzzy" -> 2
      [] category = "internal" -> 1
      [] category = "unavailable" -> 0
      [] OTHER -> 99

\* category_order
category_order(category) ==
    CASE category = "exact" -> 0
      [] category = "fuzzy" -> 1
      [] category = "internal" -> 2
      [] category = "unavailable" -> 3
      [] OTHER -> 99

\* removal_details_sorted: by (-score, category_order).
removal_details_sorted(removal_details) ==
    StableSort(removal_details,
               [i \in 1..Len(removal_details) |->
                   <<0 - removal_details[i].score,
                     category_order(removal_details[i].category)>>])

\* The orders list(tracks_to_remove_ids) is taken in: set iteration order
\* is not specified, the ascending and the descending order stand for it.
Ascending(ids) ==
    LET rank == [x \in ids |-> Cardinality({y \in ids : y < x})] @@ <<>>
    IN  [k \in 1..Cardinality(ids) |-> CHOOSE x \in ids : rank[x] = k - 1]

Reverse(seq) == [k \in 1..Len(seq) |-> seq[Len(seq) + 1 - k]]

ListOrders(ids) == {Ascending(ids), Reverse(Ascending(ids))}

\* One counted for every id of batch[lo..hi].
CountSum_ones(counts, batch, lo, hi) == IF lo > hi THEN 0 ELSE hi - lo + 1

\* The sum of target_id_counts over batch[lo..hi].
RECURSIVE CountSum(_, _, _, _)
CountSum(counts, batch, lo, hi) ==
    IF lo > hi THEN 0
    ELSE IF lo = hi
    THEN (IF batch[lo] \in DOMAIN counts THEN counts[batch[lo]] ELSE 1)
    ELSE CountSum(counts, batch, lo, (lo + hi) \div 2)
         + CountSum(counts, batch, (lo + hi) \div 2 + 1, hi)

(***************************************************************************)
(* State.                                                                  *)
(***************************************************************************)
VARIABLES
    playlist,           \* the target playlist at Spotify: the ids of its items
    unplayable,         \* the ids Spotify reports as local or not playable
    form,               \* the submitted form
    run,                \* the number of the current request
    pc,                 \* where the current request stands
    offset,             \* offset of the paging loop under way
    filter_n,           \* index of the filter playlist being fetched
    target_tracks,
    unavailable_ids,
    all_filter_tracks,
    plan,               \* the values of steps 4 to 10, once computed
    tracks_list,        \* list(tracks_to_remove_ids)
    batch_start,        \* i of the batch loop
    actual_removals,
    failed_removals,
    removal_log,        \* the remove calls issued: [batch, ok]
    post_removal_ids,
    response,           \* what the request rendered
    raised,             \* the stage whose call raised, "" if none did
    history,            \* the counts the earlier requests reported
    track1, track2,     \* a pair of tracks handed to the scorer
    scored,             \* what the scorer and the two finders made of the pair
    given_title,        \* a title handed to normalize_title
    normalized,         \* what normalize_title made of it, once and twice
    targets, filters,   \* two track lists handed to the finders
    matched             \* what the two finders made of the lists

account == <<playlist, unplayable, form>>

fetched == <<target_tracks, unavailable_ids, all_filter_tracks>>

removal == <<tracks_list, batch_start, actual_removals, failed_removals, removal_log>>

lists == <<given_title, normalized, targets, filters, matched>>

pair == <<track1, track2, scored, lists>>

vars == <<account, run, pc, offset, filter_n, fetched, plan, removal,
          post_removal_ids, response, raised, history, pair>>

(***************************************************************************)
(* Bounds and the accounts and forms explored.                             *)
(***************************************************************************)
MaxTargetLen == 3

MaxBatches == 3

MaxRuns == 2

TargetIds == {1, 2, 4, 6}

Form(link, filter_playlists, include_liked_songs) ==
    [target_playlist |-> link, filter_playlists |-> filter_playlists,
     include_liked_songs |-> include_liked_songs]

MainLink == "https://open.spotify.com/playlist/PL1?si=abc"

OtherLinks ==
    {"", "nonsense", "https://open.spotify.com/album/PL1", "spotify:playlist:PL1",
     "https://open.spotify.com/playlist/", "spotify:playlist:NOPE"}

Scenario(items, blocked, f) == [playlist |-> items, unplayable |-> blocked, form |-> f]

\* Short targets over the catalog, against one filter playlist and against
\* two of them and the saved tracks.
SmallScenarios ==
    {Scenario(items, blocked, Form(MainLink, f[1], f[2])) :
        items \in UNION {[1..n -> TargetIds] : n \in 0..MaxTargetLen} \cup {<<0>>, <<0, 4, 0, 4>>},
        blocked \in {{}, {4}},
        f \in {<< <<"F1">>, FALSE >>, << <<"F1", "liked_songs", "F2">>, TRUE >>}}

\* Targets without any filter.
UnfilteredScenarios ==
    {Scenario(items, {1}, Form(MainLink, <<>>, FALSE)) :
        items \in {<<>>, <<1>>, <<4, 6>>, <<4, 4, 4>>, <<6, 4, 6>>, <<2, 1, 4>>,
                  <<4, 1, 4>>}}

\* The other shapes of the link field.
LinkScenarios ==
    {Scenario(<<1, 2, 1>>, {}, Form(link, <<"F1">>, FALSE)) : link \in OtherLinks}

\* Removal sets around the batch size: size - 2 unplayable tracks, the
\* first of them three times in the target, after an exact match, a fuzzy
\* one and a track that stays.
BulkSizes == {BatchSize, BatchSize + 50, (MaxBatches - 1) * BatchSize + 1}

BulkItems(size) ==
    <<4, 6, 1>> \o [n \in 1..(size - 2) |-> Len(Catalog) + n]
             \o <<Len(Catalog) + 1, Len(Catalog) + 1>>

BulkScenarios ==
    {Scenario(BulkItems(size), (Len(Catalog) + 1)..(Len(Catalog) + size - 2),
              Form(MainLink, <<"F2">>, FALSE)) : size \in BulkSizes}

\* Targets holding two tracks of one ISRC, one of them similar to the
\* filter's track.
SameIsrcScenarios ==
    {Scenario(c[1], {}, Form(MainLink, <<c[2]>>, FALSE)) :
        c \in {<< <<4, 5>>, "F1" >>, << <<5, 4, 1>>, "F1" >>, << <<5, 4, 6>>, "F2" >>}}

Scenarios ==
    SmallScenarios \cup UnfilteredScenarios \cup LinkScenarios \cup BulkScenarios
        \cup SameIsrcScenarios

NoResponse == [outcome |-> "none", error |-> "", results |-> <<>>]

ErrorResponse(error) == [outcome |-> "error", error |-> error, results |-> <<>>]

NoScores == [done |-> FALSE]

\* No title and no lists are handed to the helpers.
NoLists ==
    /\ given_title = ""
    /\ normalized = [done |-> FALSE]
    /\ targets = <<>>
    /\ filters = <<>>
    /\ matched = [done |-> FALSE]

\* The values a request starts from.
Fresh ==
    /\ pc = "start"
    /\ offset = 0
    /\ filter_n = 0
    /\ target_tracks = <<>>
    /\ unavailable_ids = {}
    /\ all_filter_tracks = <<>>
    /\ plan = NoPlan
    /\ tracks_list = <<>>
    /\ batch_start = 0
    /\ actual_removals = 0
    /\ failed_removals = <<>>
    /\ removal_log = <<>>
    /\ post_removal_ids = {}
    /\ response = NoResponse
    /\ raised = ""

Init ==
    /\ \E sc \in Scenarios :
          /\ playlist = sc.playlist
          /\ unplayable = sc.unplayable
          /\ form = sc.form
    /\ run = 1
    /\ history = <<>>
    /\ Fresh
    /\ track1 = NoTrack
    /\ track2 = NoTrack
    /\ scored = NoScores
    /\ NoLists

(***************************************************************************)
(* run_filter, one action per round trip to Spotify.                       *)
(***************************************************************************)
\* Steps 1 and 2: the form and the id of the link.
Start ==
    /\ pc = "start"
    /\ LET target_playlist_id == get_playlist_id_from_link(form.target_playlist)
       IN  IF ~target_playlist_id.some \/ target_playlist_id.id = ""
           THEN /\ pc' = "done"
                /\ response' = ErrorResponse("Invalid Target Playlist link.")
           ELSE /\ pc' = "name"
                /\ response' = response
    /\ UNCHANGED <<account, run, offset, filter_n, fetched, plan, removal,
                   post_removal_ids, raised, history, pair>>

\* sp.playlist(target_playlist_id, fields='name') returns.
FetchName ==
    /\ pc = "name"
    /\ get_playlist_id_from_link(form.target_playlist).id = TargetPlaylistId
    /\ pc' = "target"
    /\ offset' = 0
    /\ UNCHANGED <<account, run, filter_n, fetched, plan, removal,
                   post_removal_ids, response, raised, history, pair>>

\* Step 3: one page of the target playlist.
FetchTargetPage ==
    /\ pc = "target"
    /\ LET items == Page(playlist, offset, PageLimit)
       IN  IF items = <<>>
           THEN /\ pc' = "user"
                /\ UNCHANGED <<target_tracks, offset>>
           ELSE /\ target_tracks' = target_tracks \o ItemTracks(items)
                /\ offset' = offset + PageLimit
                /\ pc' = pc
    /\ UNCHANGED <<account, run, filter_n, unavailable_ids, all_filter_tracks, plan,
                   removal, post_removal_ids, response, raised, history, pair>>

\* Step 4: sp.current_user() returns.
CurrentUser ==
    /\ pc = "user"
    /\ pc' = "avail"
    /\ offset' = 0
    /\ UNCHANGED <<account, run, filter_n, fetched, plan, removal,
                   post_removal_ids, response, raised, history, pair>>

\* Steps 6 to 10, and the list the batch loop walks; an empty removal set
\* skips the loop.
Compile ==
    LET p == RemovalPlan(target_tracks, unavailable_ids, all_filter_tracks)
    IN  \E order \in ListOrders(p.tracks_to_remove_ids) :
           /\ plan' = p
           /\ tracks_list' = order
           /\ pc' = IF order = <<>> THEN "verify" ELSE "remove"
           /\ offset' = 0
           /\ filter_n' = filter_n

\* for filter_pid in filter_playlist_ids[n..]: on to the next playlist that
\* is fetched, or past the loop.
FilterFrom(n) ==
    LET rest == {m \in n..Len(form.filter_playlists) : form.filter_playlists[m] # "liked_songs"}
    IN  IF rest # {}
        THEN /\ pc' = "filter"
             /\ filter_n' = CHOOSE m \in rest : \A k \in rest : m <= k
             /\ offset' = 0
             /\ UNCHANGED <<plan, tracks_list>>
        ELSE Compile

\* Step 4: one page of the target playlist with the market parameter.
FetchAvailPage ==
    /\ pc = "avail"
    /\ LET items == Page(playlist, offset, PageLimit)
       IN  IF items = <<>>
           THEN /\ IF form.include_liked_songs
                   THEN /\ pc' = "saved"
                        /\ offset' = 0
                        /\ UNCHANGED <<filter_n, plan, tracks_list>>
                   ELSE FilterFrom(1)
                /\ UNCHANGED unavailable_ids
           ELSE /\ unavailable_ids' = unavailable_ids \cup (Range(ItemIds(items)) \cap unplayable)
                /\ offset' = offset + PageLimit
                /\ UNCHANGED <<pc, filter_n, plan, tracks_list>>
    /\ UNCHANGED <<account, run, target_tracks, all_filter_tracks, batch_start,
                   actual_removals, failed_removals, removal_log, post_removal_ids,
                   response, raised, history, pair>>

\* Step 5: one page of the saved tracks.
FetchSavedPage ==
    /\ pc = "saved"
    /\ LET items == Page(SavedItems, offset, SavedPageLimit)
       IN  IF items = <<>>
           THEN /\ FilterFrom(1)
                /\ UNCHANGED all_filter_tracks
           ELSE /\ all_filter_tracks' = all_filter_tracks \o ItemTracks(items)
                /\ offset' = offset + SavedPageLimit
                /\ UNCHANGED <<pc, filter_n, plan, tracks_list>>
    /\ UNCHANGED <<account, run, target_tracks, unavailable_ids, batch_start,
                   actual_removals, failed_removals, removal_log, post_removal_ids,
                   response, raised, history, pair>>

\* Step 5: one page of a filter playlist.
FetchFilterPage ==
    /\ pc = "filter"
    /\ LET items == Page(FilterLists[form.filter_playlists[filter_n]], offset, PageLimit)
       IN  IF items = <<>>
           THEN /\ FilterFrom(filter_n + 1)
                /\ UNCHANGED all_filter_tracks
           ELSE /\ all_filter_tracks' = all_filter_tracks \o ItemTracks(items)
                /\ offset' = offset + PageLimit
                /\ UNCHANGED <<pc, filter_n, plan, tracks_list>>
    /\ UNCHANGED <<account, run, target_tracks, unavailable_ids, batch_start,
                   actual_removals, failed_removals, removal_log, post_removal_ids,
                   response, raised, history, pair>>

\* The stages that wait for a fetch.
FetchStages == {"name", "target", "user", "avail", "saved", "filter", "verify"}

\* A fetch raises, and the request carries on with what it has.
FetchRaise_ignored ==
    /\ pc \in FetchStages
    /\ raised = ""
    /\ raised' = pc
    /\ UNCHANGED <<account, run, pc, offset, filter_n, fetched, plan, removal,
                   post_removal_ids, response, history, pair>>

\* A fetch raises: the handler of the whole request renders the error.

FetchRaise ==
    /\ pc \in FetchStages
    /\ raised' = pc
    /\ pc' = "done"
    /\ response' = ErrorResponse("exception")
    /\ UNCHANGED <<account, run, offset, filter_n, fetched, plan, removal,
                   post_removal_ids, history, pair>>

\* batch = tracks_list[i:i+99]
Batch_short ==
    SubSeq(tracks_list, batch_start + 1, Min(batch_start + BatchSize - 1, Len(tracks_list)))

\* Step 11: batch = tracks_list[i:i+100]
Batch == SubSeq(tracks_list, batch_start + 1, Min(batch_start + BatchSize, Len(tracks_list)))

\* The batch loop left after its first batch.
NextBatch_once ==
    /\ batch_start' = batch_start + BatchSize
    /\ pc' = "verify"
    /\ offset' = 0

\* for i in range(0, len(tracks_list), 100): on to the next batch, or past
\* the loop.
NextBatch ==
    /\ batch_start' = batch_start + BatchSize
    /\ pc' = IF batch_start + BatchSize < Len(tracks_list) THEN "remove" ELSE "verify"
    /\ offset' = 0

\* What Spotify keeps of the playlist when asked to remove all occurrences
\* of the ids.
RemoveAllOccurrences(items, ids) == SelectAt(items, {i \in 1..Len(items) : items[i] \notin ids})

\* The remove call of a batch returns.
RemoveBatch ==
    /\ pc = "remove"
    /\ playlist' = RemoveAllOccurrences(playlist, Range(Batch))
    /\ removal_log' = Append(removal_log, [batch |-> Batch, ok |-> TRUE])
    /\ actual_removals' = actual_removals + CountSum(plan.target_id_counts, Batch, 1, Len(Batch))
    /\ NextBatch
    /\ UNCHANGED <<unplayable, form, run, filter_n, fetched, plan, tracks_list,
                   failed_removals, post_removal_ids, response, raised, history, pair>>

\* RemoveBatchRaise with the ids of the failed batch counted as removed.
RemoveBatchRaise_counted ==
    /\ pc = "remove"
    /\ removal_log' = Append(removal_log, [batch |-> Batch, ok |-> FALSE])
    /\ failed_removals' = failed_removals \o Batch
    /\ actual_removals' = actual_removals + CountSum(plan.target_id_counts, Batch, 1, Len(Batch))
    /\ NextBatch
    /\ UNCHANGED <<account, run, filter_n, fetched, plan, tracks_list,
                   post_removal_ids, response, raised, history, pair>>

\* The remove call of a batch raises.
RemoveBatchRaise ==
    /\ pc = "remove"
    /\ removal_log' = Append(removal_log, [batch |-> Batch, ok |-> FALSE])
    /\ failed_removals' = failed_removals \o Batch
    /\ NextBatch
    /\ UNCHANGED <<account, run, filter_n, fetched, plan, tracks_list, actual_removals,
                   post_removal_ids, response, raised, history, pair>>

\* verification_results, for sample_tracks = list(tracks_to_remove_ids)[:5]
verification_results ==
    [n \in 1..Min(SampleSize, Len(tracks_list)) |->
        [id |-> tracks_list[n], still_in_playlist |-> tracks_list[n] \in post_removal_ids]]

\* warnings_for_template
warnings_for_template ==
    [n \in 1..Len(plan.cross_warnings) |->
        [id |-> ByScore(plan.cross_warnings)[n].track.id,
         name |-> ByScore(plan.cross_warnings)[n].track.name,
         similar_to |-> ByScore(plan.cross_warnings)[n].other.name,
         score |-> ByScore(plan.cross_warnings)[n].score,
         reasons |-> ByScore(plan.cross_warnings)[n].reasons]]

\* The results dict.
results ==
    [actual_removals |-> actual_removals,
     unique_tracks |-> Cardinality(plan.tracks_to_remove_ids),
     unavailable_count |-> Len(plan.unavailable_tracks),
     exact_count |-> Len(plan.exact_matches),
     fuzzy_count |-> Len(plan.fuzzy_duplicates),
     internal_count |-> Len(plan.internal_duplicates),
     failed_count |-> Len(failed_removals),
     removal_details |-> removal_details_sorted(plan.removal_details),
     warnings |-> warnings_for_template,
     warnings_total |-> Len(plan.cross_warnings),
     verification |-> verification_results,
     post_removal_count |-> Cardinality(post_removal_ids)]

\* VerifyPage with a removed id that is still in the target escalated to
\* the error outcome.
VerifyPage_fatal ==
    /\ pc = "verify"
    /\ LET items == Page(playlist, offset, PageLimit)
       IN  IF items = <<>>
           THEN /\ pc' = "done"
                /\ response' = IF plan.tracks_to_remove_ids \cap post_removal_ids = {}
                                THEN [outcome |-> "result", error |-> "", results |-> <<results>>]
                                ELSE ErrorResponse("verification")
                /\ UNCHANGED <<offset, post_removal_ids>>
           ELSE /\ post_removal_ids' = post_removal_ids \cup Range(ItemIds(items))
                /\ offset' = offset + PageLimit
                /\ UNCHANGED <<pc, response>>
    /\ UNCHANGED <<account, run, filter_n, fetched, plan, removal, raised, history, pair>>

\* The re-fetch after the removal, one page; after the last one the result
\* is rendered.
VerifyPage ==
    /\ pc = "verify"
    /\ LET items == Page(playlist, offset, PageLimit)
       IN  IF items = <<>>
           THEN /\ pc' = "done"
                /\ response' = [outcome |-> "result", error |-> "", results |-> <<results>>]
                /\ UNCHANGED <<offset, post_removal_ids>>
           ELSE /\ post_removal_ids' = post_removal_ids \cup Range(ItemIds(items))
                /\ offset' = offset + PageLimit
                /\ UNCHANGED <<pc, response>>
    /\ UNCHANGED <<account, run, filter_n, fetched, plan, removal, raised, history, pair>>

Rendered == response.outcome = "result"

Reported == response.results[1]

\* The same form is submitted again after a rendered result.
NextRun ==
    /\ pc = "done"
    /\ response.outcome = "result"
    /\ run < MaxRuns
    /\ run' = run + 1
    /\ history' = Append(history, [actual_removals |-> Reported.actual_removals,
                                   unique_tracks |-> Reported.unique_tracks,
                                   internal_count |-> Reported.internal_count,
                                   failed_count |-> Reported.failed_count])
    /\ pc' = "start"
    /\ offset' = 0
    /\ filter_n' = 0
    /\ target_tracks' = <<>>
    /\ unavailable_ids' = {}
    /\ all_filter_tracks' = <<>>
    /\ plan' = NoPlan
    /\ tracks_list' = <<>>
    /\ batch_start' = 0
    /\ actual_removals' = 0
    /\ failed_removals' = <<>>
    /\ removal_log' = <<>>
    /\ post_removal_ids' = {}
    /\ response' = NoResponse
    /\ raised' = ""
    /\ UNCHANGED <<account, pair>>

Next ==
    \/ Start
    \/ FetchName
    \/ FetchTargetPage
    \/ CurrentUser
    \/ FetchAvailPage
    \/ FetchSavedPage
    \/ FetchFilterPage
    \/ FetchRaise
    \/ RemoveBatch
    \/ RemoveBatchRaise
    \/ VerifyPage
    \/ NextRun

Spec == Init /\ [][Next]_vars

(***************************************************************************)
(* Claims about run_filter (checked under Spec).                           *)
(***************************************************************************)
\* The remove calls that returned, and those that raised.
Returned == SelectAt(removal_log, {i \in 1..Len(removal_log) : removal_log[i].ok})

Failed == SelectAt(removal_log, {i \in 1..Len(removal_log) : ~removal_log[i].ok})

\* The ids the calls carried.
Carried(calls) == UNION {Range(calls[c].batch) : c \in 1..Len(calls)}

RECURSIVE CarriedCount(_, _, _)
CarriedCount(calls, lo, hi) ==
    IF lo > hi THEN 0
    ELSE IF lo = hi THEN Len(calls[lo].batch)
    ELSE CarriedCount(calls, lo, (lo + hi) \div 2) + CarriedCount(calls, (lo + hi) \div 2 + 1, hi)

\* The number of entries of the fetched target whose id is one of ids.
EntriesOf(ids) == Cardinality({i \in 1..Len(target_tracks) : target_tracks[i].id \in ids})

\* C1 (as claimed): the reported actual_removals is the number of target
\* entries whose id is in tracks_to_remove_ids, whatever batches failed.
C1_CountsWholePlan ==
    Rendered => Reported.actual_removals = EntriesOf(plan.tracks_to_remove_ids)

\* C1 (amended): the reported actual_removals is the sum of
\* target_id_counts over the ids of the batches whose remove call returned,
\* every occurrence of such an id counted; it is the sum over the whole of
\* tracks_to_remove_ids when no batch failed.
C1_CountsReturnedBatches ==
    Rendered =>
        /\ Reported.actual_removals = EntriesOf(Carried(Returned))
        /\ Reported.failed_count = 0 =>
              Reported.actual_removals = EntriesOf(plan.tracks_to_remove_ids)

\* A result after one batch failed and another, holding an id that is
\* three times in the target, returned.
C1_Witness ==
    /\ Rendered
    /\ Failed # <<>>
    /\ \E tid \in Carried(Returned) : plan.target_id_counts[tid] = 3
    /\ Reported.actual_removals > Cardinality(Carried(Returned))
    /\ Reported.actual_removals < EntriesOf(plan.tracks_to_remove_ids)

\* C2: when the remove call of a batch raises, its ids are in
\* failed_removals, the later batches are still sent, and the request ends
\* with the normal result, whose failed_count is the number of ids of the
\* failed batches.
C2_FailureKeepsResult ==
    (pc = "done" /\ Failed # <<>>) =>
        /\ Carried(Failed) = Range(failed_removals)
        /\ CarriedCount(removal_log, 1, Len(removal_log)) = Len(tracks_list)
        /\ Rendered
        /\ Reported.failed_count = CarriedCount(Failed, 1, Len(Failed))

\* C3: past the batch loop, ceil(n/100) remove calls were issued for the n
\* ids of tracks_to_remove_ids, each with 1 to 100 ids, and every id was
\* carried by exactly one call (the calls carry n ids in all and every id
\* of the set is among them); no call carries another id at any time.
C3_Batches ==
    /\ Carried(removal_log) \subseteq plan.tracks_to_remove_ids
    /\ \A c \in 1..Len(removal_log) : Len(removal_log[c].batch) \in 1..100
    /\ (plan.computed /\ pc \in {"verify", "done"}) =>
          /\ Len(removal_log) = (Cardinality(plan.tracks_to_remove_ids) + 99) \div 100
          /\ Carried(removal_log) = plan.tracks_to_remove_ids
          /\ CarriedCount(removal_log, 1, Len(removal_log)) = Cardinality(plan.tracks_to_remove_ids)

\* 201 ids went out in three calls, the last with a single id.
C3_Witness ==
    /\ pc = "done"
    /\ Cardinality(plan.tracks_to_remove_ids) = 201
    /\ Len(removal_log) = 3
    /\ Len(removal_log[1].batch) = 100
    /\ Len(removal_log[3].batch) = 1

\* The ids of the tracks of a list of match tuples.
MatchIds(matches) == {matches[i].track.id : i \in 1..Len(matches)}

\* C4: tracks_to_remove_ids is the union of the unavailable, exact, fuzzy
\* and internal ids, every id of it has exactly one entry in
\* removal_details (as many entries as ids, each for an id of the set), and
\* the reported unique_tracks is the sum of the four reported counts.
C4_UnionOfCategories ==
    plan.computed =>
        /\ plan.tracks_to_remove_ids =
              Ids(plan.unavailable_tracks) \cup Ids(plan.exact_matches)
                 \cup MatchIds(plan.fuzzy_duplicates) \cup MatchIds(plan.internal_duplicates)
        /\ Len(plan.removal_details) = Cardinality(plan.tracks_to_remove_ids)
        /\ \A i \in 1..Len(plan.removal_details) :
              plan.removal_details[i].id \in plan.tracks_to_remove_ids
        /\ Rendered =>
              Reported.unique_tracks =
                 Reported.unavailable_count + Reported.exact_count
                    + Reported.fuzzy_count + Reported.internal_count

\* A result with three categories at once, for a target that holds an
\* id of the removal set more than once.
C4_Witness ==
    /\ Rendered
    /\ Reported.unavailable_count > 0
    /\ Reported.exact_count > 0
    /\ Reported.fuzzy_count > 0
    /\ \E tid \in plan.tracks_to_remove_ids : plan.target_id_counts[tid] > 1

\* The first request removed all it planned to.
FirstRunRemovedAll ==
    /\ run = 2
    /\ history[1].failed_count = 0

\* C5: a second request after a first one whose batches all succeeded
\* plans nothing: no unavailable, exact, fuzzy or internal removal, and no
\* remove call.
C5_SecondRunEmpty ==
    FirstRunRemovedAll =>
        /\ removal_log = <<>>
        /\ plan.computed =>
              /\ plan.tracks_to_remove_ids = {}
              /\ plan.unavailable_tracks = <<>>
              /\ plan.exact_matches = <<>>
              /\ plan.fuzzy_duplicates = <<>>
              /\ plan.internal_duplicates = <<>>

\* The second request rendered its result after a first one that removed
\* an internal duplicate and left tracks in the playlist.
C5_Witness ==
    /\ FirstRunRemovedAll
    /\ Rendered
    /\ history[1].internal_count > 0
    /\ history[1].actual_removals > 0
    /\ Len(target_tracks) > 1

\* The fetches that supply the inputs of the plan.
InputStages == {"name", "target", "avail", "saved", "filter"}

\* What the saved tracks and the filter playlists of the form hold.
RECURSIVE FilterTracksFrom(_)
FilterTracksFrom(n) ==
    IF n > Len(form.filter_playlists) THEN <<>>
    ELSE (IF form.filter_playlists[n] = "liked_songs" THEN <<>>
          ELSE ItemTracks(FilterLists[form.filter_playlists[n]]))
         \o FilterTracksFrom(n + 1)

AllFilterTracks ==
    (IF form.include_liked_songs THEN ItemTracks(SavedItems) ELSE <<>>) \o FilterTracksFrom(1)

\* C6: when a fetch that supplies the inputs raises, the request ends in
\* the error outcome and issues no remove call; the first remove call is
\* issued only when the target, its availability and all filter tracks are
\* fetched in full and the removal set is computed.
C6_FetchErrorAborts ==
    /\ raised \in InputStages =>
          /\ pc = "done"
          /\ response.outcome = "error"
          /\ removal_log = <<>>
    /\ removal_log # <<>> => plan.computed /\ raised \notin InputStages
    /\ (pc = "remove" /\ removal_log = <<>>) =>
          /\ plan.computed
          /\ target_tracks = ItemTracks(playlist)
          /\ unavailable_ids = Range(ItemIds(playlist)) \cap unplayable
          /\ all_filter_tracks = AllFilterTracks

\* A fetch of a filter playlist raised after the target was fetched and
\* held a track the filter would have removed.
C6_Witness ==
    /\ raised = "filter"
    /\ pc = "done"
    /\ \E i \in 1..Len(target_tracks) : target_tracks[i].id \in Ids(AllFilterTracks)

\* C7: a request whose link is malformed, or whose fetched target is
\* empty, ends with an error and issues no remove call.
C7_FailsFast ==
    (pc = "done" /\ (~get_playlist_id_from_link(form.target_playlist).some
                       \/ (plan.computed /\ target_tracks = <<>>))) =>
        /\ response.outcome = "error"
        /\ removal_log = <<>>

(***************************************************************************)
(* The scorer and the two finders on a pair of tracks.                     *)
(***************************************************************************)
ScoreDurations == {None, 0, 5000, 200000, 205000}

ScoreArtists == {{}, {1}, {2}, {1, 2}}

ScoreIsrcs == {"", "X", "Y"}

\* The tracks a pair is drawn from, under the given id.
ScoreTracks(id) ==
    {Mk(id, name, duration_ms, artists, isrc) :
        name \in Titles, duration_ms \in ScoreDurations,
        artists \in ScoreArtists, isrc \in ScoreIsrcs}

\* A third track the finders see next to the pair.
Bystander == Mk(3, "Song A", 200000, {1}, "")

\* No request is under way.
NoRequest ==
    /\ playlist = <<>>
    /\ unplayable = {}
    /\ form = Form("", <<>>, FALSE)
    /\ run = 0
    /\ history = <<>>
    /\ pc = "idle"
    /\ offset = 0
    /\ filter_n = 0
    /\ target_tracks = <<>>
    /\ unavailable_ids = {}
    /\ all_filter_tracks = <<>>
    /\ plan = NoPlan
    /\ tracks_list = <<>>
    /\ batch_start = 0
    /\ actual_removals = 0
    /\ failed_removals = <<>>
    /\ removal_log = <<>>
    /\ post_removal_ids = {}
    /\ response = NoResponse
    /\ raised = ""

InitScore ==
    /\ track1 \in ScoreTracks(1)
    /\ track2 = NoTrack
    /\ scored = NoScores
    /\ NoLists
    /\ NoRequest

\* The pair is scored in both directions, matched as target against
\* filter, and searched as one playlist.
ScorePair ==
    /\ ~scored.done
    /\ \E other \in ScoreTracks(2) :
          /\ track2' = other
          /\ scored' = [done |-> TRUE,
                        forward |-> calculate_similarity_score(track1, other),
                        backward |-> calculate_similarity_score(other, track1),
                        cross |-> find_duplicates_and_warnings(<<track1>>, <<Bystander, other>>),
                        internal |-> find_internal_duplicates(<<track1, Bystander, other>>)]
    /\ UNCHANGED <<account, run, pc, offset, filter_n, fetched, plan, removal,
                   post_removal_ids, response, raised, history, track1, lists>>

NextScore == ScorePair

SpecScore == InitScore /\ [][NextScore]_vars

(***************************************************************************)
(* Claims about the scorer (checked under SpecScore).                      *)
(***************************************************************************)
SameIsrc == get_isrc(track1) # "" /\ get_isrc(track1) = get_isrc(track2)

\* C8: calculate_similarity_score is symmetric: the score of (a, b) equals
\* the score of (b, a) for every pair of tracks.
C8_Symmetric == scored.done => scored.forward.score = scored.backward.score

\* C9: two tracks with equal non-empty ISRCs score exactly 100 whatever
\* their titles, durations and artists, find_duplicates_and_warnings reports
\* the target as a duplicate of the filter track (not as a warning), and
\* find_internal_duplicates reports the later one as a duplicate of the
\* earlier one.
C9_IsrcIsDuplicate ==
    (scored.done /\ SameIsrc) =>
        /\ scored.forward.score = 100
        /\ scored.backward.score = 100
        /\ scored.cross.duplicates =
              <<MatchTuple(track1, track2, 100, <<"Same ISRC (identical recording)">>)>>
        /\ scored.cross.warnings = <<>>
        /\ \E i \in 1..Len(scored.internal) :
              /\ scored.internal[i].track = track2
              /\ scored.internal[i].other = track1
              /\ scored.internal[i].score = 100

\* A pair of one ISRC whose titles, durations and artists all differ.
C9_Witness ==
    /\ scored.done
    /\ SameIsrc
    /\ NormOf(track1) # NormOf(track2)
    /\ NormOf(track1) # ""
    /\ NormOf(track2) # ""
    /\ ~duration_within_threshold(track1.duration_ms, track2.duration_ms)
    /\ track1.duration_ms # None
    /\ track2.duration_ms # None
    /\ ~artists_overlap(track1.artists, track2.artists)
    /\ track1.artists # {}
    /\ track2.artists # {}
    /\ scored.forward.score = 100

\* C10: the score of every pair is an integer in 0..100.
C10_ScoreInRange ==
    scored.done => scored.forward.score \in 0..100 /\ scored.backward.score \in 0..100

(***************************************************************************)
(* normalize_title on a title, and on what it returns.                     *)
(***************************************************************************)
\* The titles: a name, then two of the parts the patterns are written for.
TitleMiddles ==
    {"", " (Live)", " - (Live)", " (edit)", " (Remastered 2009)", " (expl(edit)icit)",
     " feat. Y", " (Deluxe Edition)"}

TitleTails ==
    {"", " Remastered", " (Remastered 2009)", " - Live", " (edit)", " Remix",
     " (Radio Edit)", " - 2009 Remaster"}

TitleInputs == {"Song A" \o m \o t : m \in TitleMiddles, t \in TitleTails}

InitTitle ==
    /\ given_title \in TitleInputs
    /\ normalized = [done |-> FALSE]
    /\ targets = <<>>
    /\ filters = <<>>
    /\ matched = [done |-> FALSE]
    /\ track1 = NoTrack
    /\ track2 = NoTrack
    /\ scored = NoScores
    /\ NoRequest

\* once is normalize_title(title), twice normalize_title(once).
Normalized(once) == [done |-> TRUE, once |-> once, twice |-> normalize_title(once)]

NormalizeTitle ==
    /\ ~normalized.done
    /\ normalized' = Normalized(normalize_title(given_title))
    /\ UNCHANGED <<account, run, pc, offset, filter_n, fetched, plan, removal,
                   post_removal_ids, response, raised, history, track1, track2, scored,
                   given_title, targets, filters, matched>>

NextTitle == NormalizeTitle

SpecTitle == InitTitle /\ [][NextTitle]_vars

\* C11: normalize_title is idempotent: normalizing what it returned
\* returns the same string.
C11_Idempotent == normalized.done => normalized.twice = normalized.once

(***************************************************************************)
(* The two finders on lists of tracks.                                     *)
(***************************************************************************)
MaxListLen == 3

\* The tracks of the lists: the catalog, and three tracks whose titles are
\* similar without being equal.
ListTrack(id) ==
    CASE id = 7 -> Mk(7, "aaaaabaaaa", 200000, {1}, "")
      [] id = 8 -> Mk(8, "baaaaaaaaa", None, {}, "")
      [] id = 9 -> Mk(9, "baaaaaaaaa", 200000, {1}, "")
      [] OTHER -> Catalog[id]

ListOf(ids) == [n \in 1..Len(ids) |-> ListTrack(ids[n])]

TargetLists == {ListOf(ids) : ids \in UNION {[1..n -> 1..9] : n \in 0..MaxListLen}}

FilterChoices ==
    {ListOf(ids) : ids \in {<<>>, <<3>>, <<1, 3, 2, 5>>, <<5, 3>>, <<8, 9, 2, 3>>, <<4, 6, 1, 8>>}}

InitLists ==
    /\ targets \in TargetLists
    /\ filters \in FilterChoices
    /\ matched = [done |-> FALSE]
    /\ given_title = ""
    /\ normalized = [done |-> FALSE]
    /\ track1 = NoTrack
    /\ track2 = NoTrack
    /\ scored = NoScores
    /\ NoRequest

\* targets is matched against filters, and searched as one playlist.
MatchLists ==
    /\ ~matched.done
    /\ matched' = [done |-> TRUE,
                   cross |-> find_duplicates_and_warnings(targets, filters),
                   internal |-> find_internal_duplicates(targets)]
    /\ UNCHANGED <<account, run, pc, offset, filter_n, fetched, plan, removal,
                   post_removal_ids, response, raised, history, track1, track2, scored,
                   given_title, normalized, targets, filters>>

NextLists == MatchLists

SpecLists == InitLists /\ [][NextLists]_vars

\* The ids of the tracks (the targets) of a list of matches.
TrackIds(matches) == {matches[k].track.id : k \in 1..Len(matches)}

\* The entries of a list of matches whose track has the id.
EntriesFor(matches, id) == {k \in 1..Len(matches) : matches[k].track.id = id}

\* The lists a target track of the best match is reported in.
Classified(target_track, best, cross) ==
    IF best.found /\ best.score >= 80
    THEN /\ Cardinality(EntriesFor(cross.duplicates, target_track.id)) = 1
         /\ EntriesFor(cross.warnings, target_track.id) = {}
    ELSE IF best.found /\ best.score >= 40
    THEN /\ EntriesFor(cross.duplicates, target_track.id) = {}
         /\ EntriesFor(cross.warnings, target_track.id) # {}
    ELSE /\ EntriesFor(cross.duplicates, target_track.id) = {}
         /\ EntriesFor(cross.warnings, target_track.id) = {}

\* C12: find_duplicates_and_warnings reports a target track whose best match
\* scores 80 or more in duplicates, once, one whose best match scores 40 to
\* 79 in warnings, and any other target in neither; no id is in both lists.
C12_Classified ==
    matched.done =>
        /\ \A i \in 1..Len(targets) :
               Classified(targets[i], BestMatch(targets[i], filters), matched.cross)
        /\ TrackIds(matched.cross.duplicates) \cap TrackIds(matched.cross.warnings) = {}
        /\ TrackIds(matched.cross.duplicates) \cup TrackIds(matched.cross.warnings)
               \subseteq {targets[i].id : i \in 1..Len(targets)}

\* A duplicate, a warning and a target whose best match scores under 40, of
\* one call.
C12_Witness ==
    /\ matched.done
    /\ matched.cross.duplicates # <<>>
    /\ matched.cross.warnings # <<>>
    /\ \E i \in 1..Len(targets) :
           /\ BestMatch(targets[i], filters).found
           /\ BestMatch(targets[i], filters).score < 40

(***************************************************************************)
(* The categories of run_filter.                                           *)
(***************************************************************************)
\* C13: no target track reported as a warning is in tracks_to_remove_ids.
C13_WarningsKept ==
    Rendered =>
        \A i \in 1..Len(plan.cross_warnings) :
            plan.cross_warnings[i].track.id \notin plan.tracks_to_remove_ids

\* The result of the run on the target [1, 2, 1] ('Song A'; 'Song A
\* (Remastered 2009)', 200000 ms; 'Song A') against the filter [3] ('Song
\* A', 198000 ms), nothing unavailable.
RemasterScenario ==
    /\ Rendered
    /\ [n \in 1..Len(target_tracks) |-> target_tracks[n].id] = <<1, 2, 1>>
    /\ [n \in 1..Len(all_filter_tracks) |-> all_filter_tracks[n].id] = <<3>>
    /\ unavailable_ids = {}

\* The matches of the list whose track, other track and score are these.
Matching(matches, id, other, score) ==
    {k \in 1..Len(matches) :
        /\ matches[k].track.id = id
        /\ matches[k].other.id = other
        /\ matches[k].score = score}

\* C14 (as claimed): in that run id 2 is a fuzzy duplicate of id 3, id 1 an
\* exact or fuzzy duplicate, both are in the removal set and
\* actual_removals is 3.
C14_ScenarioRemoved ==
    RemasterScenario =>
        /\ \E k \in 1..Len(plan.fuzzy_duplicates) :
               /\ plan.fuzzy_duplicates[k].track.id = 2
               /\ plan.fuzzy_duplicates[k].other.id = 3
        /\ \/ \E k \in 1..Len(plan.exact_matches) : plan.exact_matches[k].id = 1
           \/ \E k \in 1..Len(plan.fuzzy_duplicates) : plan.fuzzy_duplicates[k].track.id = 1
        /\ {1, 2} \subseteq plan.tracks_to_remove_ids
        /\ Reported.actual_removals = 3

\* C14 (amended): in that run id 1 scores 40 and id 2 scores 70 against id 3,
\* both are warnings and neither a duplicate, the removal set is empty and
\* actual_removals is 0.
C14_ScenarioWarned ==
    RemasterScenario =>
        /\ plan.exact_matches = <<>>
        /\ plan.fuzzy_duplicates = <<>>
        /\ Len(plan.cross_warnings) = 2
        /\ Matching(plan.cross_warnings, 1, 3, 40) # {}
        /\ Matching(plan.cross_warnings, 2, 3, 70) # {}
        /\ plan.internal_duplicates = <<>>
        /\ plan.tracks_to_remove_ids = {}
        /\ Reported.actual_removals = 0
        /\ Reported.warnings_total = 2

\* The result of that run, with its two warnings.
C14_Witness == RemasterScenario /\ Reported.warnings_total = 2 /\ Reported.unique_tracks = 0

(***************************************************************************)
(* The verification after the removal.                                     *)
(***************************************************************************)
\* The ids of the removal set that the re-fetched target still holds.
StillPresent == plan.tracks_to_remove_ids \cap post_removal_ids

\* The re-fetch of the target ran to its end.
Refetched == pc = "done" /\ plan.computed /\ raised = ""

\* C15: when the re-fetched target still holds an id of the removal set,
\* the request ends with the normal result: no error, and the counts and
\* the removal details of the plan reported.
C15_MismatchNotFatal ==
    (Refetched /\ StillPresent # {}) =>
        /\ Rendered
        /\ response.error = ""
        /\ Reported.unique_tracks = Cardinality(plan.tracks_to_remove_ids)
        /\ Reported.failed_count = Len(failed_removals)
        /\ Len(Reported.removal_details) = Len(plan.removal_details)

\* A result whose verification shows a removed id still in the target.
C15_Witness ==
    /\ Refetched
    /\ Rendered
    /\ \E n \in 1..Len(Reported.verification) :
           /\ Reported.verification[n].still_in_playlist
           /\ Reported.verification[n].id \in StillPresent

\* C16: every id of the removal set that the re-fetched target still holds
\* has an entry with still_in_playlist in the verification result.
C16_VerifiesEveryId ==
    (Refetched /\ Rendered) =>
        \A tid \in StillPresent :
            \E n \in 1..Len(Reported.verification) :
                /\ Reported.verification[n].id = tid
                /\ Reported.verification[n].still_in_playlist

(***************************************************************************)
(* find_internal_duplicates on a list of tracks of distinct ids, as        *)
(* run_filter hands it.                                                    *)
(***************************************************************************)
DistinctIds(tracks) ==
    \A i, j \in 1..Len(tracks) : tracks[i].id = tracks[j].id => i = j

\* C17: the original of a returned pair is not the track to remove of any
\* returned pair.
C17_OriginalKept ==
    (matched.done /\ DistinctIds(targets)) =>
        \A i, j \in 1..Len(matched.internal) :
            matched.internal[i].other.id # matched.internal[j].track.id

\* C18: no id is the track to remove of two returned pairs, and the
\* original of a pair is the track to remove of no pair created before it.
C18_MarkedOnce ==
    (matched.done /\ DistinctIds(targets)) =>
        /\ \A i, j \in 1..Len(matched.internal) :
               matched.internal[i].track.id = matched.internal[j].track.id => i = j
        /\ \A i, j \in 1..Len(matched.internal) :
               i < j => matched.internal[j].other.id # matched.internal[i].track.id

\* Two tracks of one title that score 80 or more, left without a pair
\* because the later one was marked before.
C18_Witness ==
    /\ matched.done
    /\ DistinctIds(targets)
    /\ \E i, j \in 1..Len(targets) :
           /\ i < j
           /\ NormOf(targets[i]) # ""
           /\ NormOf(targets[i]) = NormOf(targets[j])
           /\ calculate_similarity_score(targets[i], targets[j]).score >= 80
           /\ targets[i].id \notin TrackIds(matched.internal)
           /\ targets[j].id \in TrackIds(matched.internal)
           /\ \A k \in 1..Len(matched.internal) :
                  matched.internal[k].track.id = targets[j].id
                      => matched.internal[k].other.id # targets[i].id

(***************************************************************************)
(* The match find_duplicates_and_warnings reports for a target.            *)
(***************************************************************************)
\* The reported matches of targets whose ISRC is not in the filter ISRC index.
ScoredEntries ==
    {e \in Range(matched.cross.duplicates) \cup Range(matched.cross.warnings) :
        \/ get_isrc(e.track) = ""
        \/ \A n \in 1..Len(filters) : get_isrc(filters[n]) # get_isrc(e.track)}

\* The filter tracks of another id whose normalized title is the target's
\* or is similar to it by 0.85 or more.
Rivals(target_track) ==
    {c \in Range(filters) :
        /\ c.id # target_track.id
        /\ \/ NormOf(c) = NormOf(target_track)
           \/ RatioAtLeast(RatioTable[<<NormOf(target_track), NormOf(c)>>], 85)}

\* The places, among the candidates in the order they are scored, of the
\* tracks of another id that score as the entry does.
ScoringAs(e, candidates) ==
    {n \in 1..Len(candidates) :
        /\ candidates[n].id # e.track.id
        /\ calculate_similarity_score(e.track, candidates[n]).score = e.score}

FirstOf(e, candidates) ==
    ScoringAs(e, candidates) # {} /\ e.other = candidates[Least(ScoringAs(e, candidates))]

\* C19: the match reported for a target whose ISRC no filter track has is
\* of another id, scores at least what every filter track of an equal or
\* similar title scores, and is the first candidate of that score.
C19_BestCandidate ==
    matched.done =>
        \A e \in ScoredEntries :
            /\ e.other.id # e.track.id
            /\ \A c \in Rivals(e.track) :
                   e.score >= calculate_similarity_score(e.track, c).score
            /\ FirstOf(e, Candidates(NormOf(e.track), filters))

\* A reported match with a second candidate of the same score and a
\* candidate of a lower one.
C19_Witness ==
    /\ matched.done
    /\ \E e \in ScoredEntries :
           /\ Cardinality(ScoringAs(e, Candidates(NormOf(e.track), filters))) > 1
           /\ \E c \in Rivals(e.track) :
                  calculate_similarity_score(e.track, c).score < e.score

(***************************************************************************)
(* The category run_filter reports for a removed id.                       *)
(***************************************************************************)
\* The first of unavailable, exact, fuzzy and internal that claims the id.
FirstClaim(tid) ==
    IF tid \in unavailable_ids THEN "unavailable"
    ELSE IF tid \in Ids(all_filter_tracks) THEN "exact"
    ELSE IF tid \in TrackIds(plan.fuzzy_duplicates) THEN "fuzzy"
    ELSE "internal"

\* C20: every removed id is reported once, in the first category that
\* claims it; no unavailable id and no filter id is handed to the fuzzy
\* matcher, and no fuzzy duplicate to find_internal_duplicates.
C20_CategoryPriority ==
    plan.computed =>
        /\ \A i \in 1..Len(plan.removal_details) :
               plan.removal_details[i].category = FirstClaim(plan.removal_details[i].id)
        /\ \A i, j \in 1..Len(plan.removal_details) :
               plan.removal_details[i].id = plan.removal_details[j].id => i = j
        /\ Ids(plan.exact_matches) \cap unavailable_ids = {}
        /\ Ids(plan.tracks_for_fuzzy) \cap (unavailable_ids \cup Ids(all_filter_tracks)) = {}
        /\ Ids(plan.remaining_after_fuzzy) \cap TrackIds(plan.fuzzy_duplicates) = {}
        /\ Rendered =>
              \A i \in 1..Len(Reported.removal_details) :
                  Reported.removal_details[i].category
                      = FirstClaim(Reported.removal_details[i].id)

\* A result with an unavailable id that is also a filter id, and a fuzzy
\* duplicate.
C20_Witness ==
    /\ Rendered
    /\ \E i, j \in 1..Len(Reported.removal_details) :
           /\ Reported.removal_details[i].category = "unavailable"
           /\ Reported.removal_details[i].id \in Ids(all_filter_tracks)
           /\ Reported.removal_details[j].category = "fuzzy"

(***************************************************************************)
(* The order of the reported removal details.                              *)
(***************************************************************************)
\* The place of a category in exact < fuzzy < internal < unavailable.
Priority(category) ==
    CHOOSE n \in 1..4 : <<"exact", "fuzzy", "internal", "unavailable">>[n] = category

\* How often the entry is in the list.
TimesIn(details, e) == Cardinality({n \in 1..Len(details) : details[n] = e})

\* C21: the reported removal details are by score descending and, for one
\* score, by category priority ascending, and hold the entries of
\* removal_details, each as often as it is there.
C21_SortedDetails ==
    Rendered =>
        /\ \A i, j \in 1..Len(Reported.removal_details) :
               i < j =>
                  \/ Reported.removal_details[i].score > Reported.removal_details[j].score
                  \/ /\ Reported.removal_details[i].score = Reported.removal_details[j].score
                     /\ Priority(Reported.removal_details[i].category)
                            <= Priority(Reported.removal_details[j].category)
        /\ Len(Reported.removal_details) = Len(plan.removal_details)
        /\ \A e \in Range(plan.removal_details) \cup Range(Reported.removal_details) :
               TimesIn(Reported.removal_details, e) = TimesIn(plan.removal_details, e)

\* A result with two entries of one score and two categories, in another
\* order than removal_details has them.
C21_Witness ==
    /\ Rendered
    /\ Reported.removal_details # plan.removal_details
    /\ \E i, j \in 1..Len(Reported.removal_details) :
           /\ Reported.removal_details[i].score = Reported.removal_details[j].score
           /\ Reported.removal_details[i].category # Reported.removal_details[j].category

(***************************************************************************)
(* The duration signal of the scorer (checked under SpecScore).            *)
(***************************************************************************)
\* Both durations are known and |d1 - d2| <= max(10000, 0.03 * max(d1, d2)).
CloseDurations(d1, d2) ==
    /\ d1 # None
    /\ d2 # None
    /\ \/ Abs(d1 - d2) <= 10000
       \/ 100 * Abs(d1 - d2) <= 3 * Max(d1, d2)

\* C22: the duration signal adds 30 to the score of a pair exactly when
\* both durations are known, a duration of 0 included, and differ by at
\* most max(10000, 0.03 * max(d1, d2)) ms, and adds 0 otherwise.
C22_DurationSignal ==
    (scored.done /\ ~SameIsrc) =>
        scored.forward.score =
            TitleSignal(NormOf(track1), NormOf(track2))[1]
                + ArtistSignal(track1.artists, track2.artists)[1]
                + (IF CloseDurations(track1.duration_ms, track2.duration_ms) THEN 30 ELSE 0)

(***************************************************************************)
(* The batch loop of run_filter.                                           *)
(***************************************************************************)
\* The batch loop of the request is over.
LoopOver == plan.computed /\ pc \in {"verify", "done"}

\* C23: after the batch loop actual_removals is the sum of target_id_counts
\* over the ids of the batches whose remove call returned, failed_removals
\* holds exactly the ids of the batches whose call raised, and the two sets
\* of ids are disjoint and together tracks_to_remove_ids.
C23_CountsSuccessfulBatches ==
    LoopOver =>
        /\ actual_removals = EntriesOf(Carried(Returned))
        /\ Range(failed_removals) = Carried(Failed)
        /\ Len(failed_removals) = Cardinality(Carried(Failed))
        /\ Carried(Returned) \cap Carried(Failed) = {}
        /\ Carried(Returned) \cup Carried(Failed) = plan.tracks_to_remove_ids

\* The loop is over with a batch that returned, holding an id that is
\* several times in the target, and a batch that raised.
C23_Witness ==
    /\ LoopOver
    /\ pc = "verify"
    /\ Returned # <<>>
    /\ Failed # <<>>
    /\ actual_removals > Cardinality(Carried(Returned))

\* The ids of the tracks of a list, in its order.
IdList(tracks) == [n \in 1..Len(tracks) |-> tracks[n].id]

\* C24: after the batch loop the target holds the entries it had when it
\* was fetched, in their order, without those of the ids of the batches
\* that returned; every id passed to a remove call is in
\* tracks_to_remove_ids, and the target is shorter by actual_removals.
C24_OnlyRemovedIdsGone ==
    LoopOver =>
        /\ ItemIds(playlist) = IdList(Without(target_tracks, Carried(Returned)))
        /\ Carried(removal_log) \subseteq plan.tracks_to_remove_ids
        /\ 0 \notin Carried(removal_log)
        /\ Len(target_tracks) - Len(ItemIds(playlist)) = actual_removals

\* After the loop the target still holds an id of a failed batch and an id
\* outside the removal set, and has lost an id it held several times.
C24_Witness ==
    /\ LoopOver
    /\ Carried(Failed) \cap Range(playlist) # {}
    /\ Range(ItemIds(playlist)) \ plan.tracks_to_remove_ids # {}
    /\ \E tid \in Carried(Returned) : plan.target_id_counts[tid] > 1

\* C25: a request that ends in the error outcome has had no remove call
\* that returned.
C25_ErrorLeavesTarget ==
    (pc = "done" /\ response.outcome = "error") => Returned = <<>>

(***************************************************************************)
(* The duplicate-of relation find_internal_duplicates returns.             *)
(***************************************************************************)
\* The place of the track of the id in targets.
PlaceOf(tid) == CHOOSE i \in 1..Len(targets) : targets[i].id = tid

\* The track reached from the track of the id by following originals, at
\* most n times.
RECURSIVE Followed(_, _)
Followed(tid, n) ==
    IF n = 0 \/ tid \notin TrackIds(matched.internal) THEN tid
    ELSE Followed(matched.internal[CHOOSE k \in 1..Len(matched.internal) :
                                      matched.internal[k].track.id = tid].other.id,
                  n - 1)

\* C26: for a list of distinct ids the original of every returned pair
\* precedes the track to remove in the list; following originals from a
\* removed track ends at a track that is not removed, and of a non-empty
\* list at least one track is not removed.
C26_OriginalPrecedes ==
    (matched.done /\ DistinctIds(targets)) =>
        /\ \A k \in 1..Len(matched.internal) :
               PlaceOf(matched.internal[k].other.id) < PlaceOf(matched.internal[k].track.id)
        /\ \A tid \in TrackIds(matched.internal) :
               Followed(tid, Len(targets)) \notin TrackIds(matched.internal)
        /\ targets # <<>> => \E i \in 1..Len(targets) :
                                targets[i].id \notin TrackIds(matched.internal)

\* A removed track whose original is removed as the duplicate of a third
\* track.
C26_Witness ==
    /\ matched.done
    /\ DistinctIds(targets)
    /\ \E i, j \in 1..Len(matched.internal) :
           /\ matched.internal[i].other.id = matched.internal[j].track.id
           /\ Followed(matched.internal[i].track.id, Len(targets))
                  = matched.internal[j].other.id

(***************************************************************************)
(* Ids that occur several times in the target.                             *)
(***************************************************************************)
\* The number of entries of the id in a list of ids.
EntriesWith(ids, tid) == Cardinality({i \in 1..Len(ids) : ids[i] = tid})

\* Below the duplicate threshold in both directions.
Unalike(a, b) ==
    /\ calculate_similarity_score(a, b).score < DupThreshold
    /\ calculate_similarity_score(b, a).score < DupThreshold

\* An available id of several target entries that is no filter id and is
\* below the duplicate threshold against every filter track and every
\* other target track.
RepeatedOnly(tid) ==
    /\ tid \notin unavailable_ids
    /\ tid \notin Ids(all_filter_tracks)
    /\ EntriesWith(IdList(target_tracks), tid) > 1
    /\ \A n \in 1..Len(all_filter_tracks) : Unalike(TrackOf(tid), all_filter_tracks[n])
    /\ \A other \in Ids(target_tracks) \ {tid} : Unalike(TrackOf(tid), TrackOf(other))

\* C27: no internal duplicate pairs a track with a track of its own id, and
\* an id that only repeats is not removed: all its entries are in the
\* target after the batch loop.
C27_RepeatsNotDuplicates ==
    plan.computed =>
        /\ \A k \in 1..Len(plan.internal_duplicates) :
               plan.internal_duplicates[k].track.id # plan.internal_duplicates[k].other.id
        /\ \A tid \in Ids(target_tracks) :
               RepeatedOnly(tid) =>
                   /\ tid \notin plan.tracks_to_remove_ids
                   /\ LoopOver => EntriesWith(ItemIds(playlist), tid)
                                      = EntriesWith(IdList(target_tracks), tid)

\* A run that removed a track and kept the entries of a repeated id that
\* carries an ISRC.
C27_Witness ==
    /\ LoopOver
    /\ Returned # <<>>
    /\ \E tid \in Ids(target_tracks) :
           /\ RepeatedOnly(tid)
           /\ get_isrc(TrackOf(tid)) # ""
           /\ EntriesWith(ItemIds(playlist), tid) > 1

====
